---- MODULE Spec2Model ----
(***************************************************************************)
(* skylight-rs: owned wrappers around Win32 handles and foreign strings.   *)
(*                                                                         *)
(* The model has two sides.  The operating system side holds the kernel    *)
(* objects (os), the thread's last-error code (lastError) and the process  *)
(* list of every snapshot (snapList, snapPos).  The program side holds the *)
(* owning values of the crate (owners), the raw handle values the caller   *)
(* knows (held), the one enumeration that may be open (iter) and the       *)
(* result the last operation returned to its caller (last).                *)
(*                                                                         *)
(* calls, okCalls, stale and aliased record what has happened, so that     *)
(* "exactly once", "no further release" and "double release" are state     *)
(* predicates.                                                             *)
(***************************************************************************)
EXTENDS Integers, Sequences, FiniteSets

\* ----------------------------------------------------------------- bounds

\* Raw resource values the operating system can hand out: 1..MaxRaw.
MaxRaw == 1

\* Owning values the program can create.
MaxOwners == 2

\* Explicit close()/destroy() calls on one owner (a failed close can be retried
\* for ever; the count is capped in the guard of the explicit release).
MaxCalls == 2

\* Entries in the process list of a snapshot.
MaxEntries == 2
\* Code units of a wide slice or iterator given to a constructor.
MaxLen == 2
\* Buffers the foreign allocators can hand out.
MaxBuf == 3

\* ------------------------------------------------------ platform constants

NULL == 0
\* The terminator of a wide string, and the content of a cell no one wrote.
NUL == 0
UNINIT == -1
INVALID_HANDLE_VALUE == -1
BOOL_FALSE == 0
BOOL_TRUE == 1
WAIT_OBJECT_0 == 0
WAIT_TIMEOUT == 258
\* WAIT_FAILED is the DWORD 0xFFFFFFFF; DWORD values are written as the 32-bit
\* two's complement integer with the same bits.
WAIT_FAILED == -1
S_OK == 0
S_FALSE == 1
CO_E_NOTINITIALIZED == -2147221008
ERROR_ACCESS_DENIED == 5
ERROR_INVALID_HANDLE == 6
ERROR_NO_MORE_FILES == 18

RawIds == 1..MaxRaw
OwnerIds == 1..MaxOwners

\* Whether raw value r names an open, or an already released, kernel object.
IsOpen(W, r) == r \in DOMAIN W.os /\ W.os[r] = "open"
IsReleased(W, r) == r \in DOMAIN W.os /\ W.os[r] = "released"

\* The code a failing system call on raw value r leaves in the thread's last
\* error: the handle is invalid, or the call is refused.
OsError(W, r) ==
    IF IsOpen(W, r) THEN ERROR_ACCESS_DENIED ELSE ERROR_INVALID_HANDLE

\* The owning types of the crate that release through a fallible call.
HandleKinds == {"Handle", "Process", "Snapshot"}
Kinds == HandleKinds \cup {"HModule", "LocalWideString", "CoTaskMemWideString"}

VARIABLES
    os,         \* os[r]: "unused", "open" or "released": the kernel object r
    lastError,  \* the thread's last OS error code
    snapList,   \* snapList[r]: the process ids held by snapshot r
    snapPos,    \* snapPos[r]: the enumeration position the OS keeps for r
    owners,     \* owners[o]: [kind, raw, st], st in none/live/closed/raw/dropped
    calls,      \* calls[o]: release calls issued through owner o
    okCalls,    \* okCalls[o]: release calls through o that succeeded
    stale,      \* raws on which a release call was issued after their release
    aliased,    \* raws wrapped by from_raw while a live owner already held them
    iter,       \* the open ProcessIter: [st, snap, has_more, current, yielded]
    last,       \* what the last operation returned to its caller
    heap,       \* heap[b]: the foreign buffer at address b: [st, prefix, units]
    out         \* what the last string operation did and returned

vars == <<os, lastError, snapList, snapPos, owners, calls, okCalls,
          stale, aliased, iter, last, heap, out>>

NoOwner == [kind |-> "none", raw |-> NULL, st |-> "none"]
NoIter == [st |-> "none", snap |-> 0, has_more |-> FALSE, current |-> 0,
           yielded |-> <<>>]
NoResult == [op |-> "none", o |-> 0, kind |-> "none", raw |-> NULL, ret |-> 0,
             tag |-> "none", code |-> 0]

Live(o) == owners[o].st = "live"
LiveOwnersOf(r) == {o \in OwnerIds : Live(o) /\ owners[o].raw = r}
FreeOwners == {o \in OwnerIds : owners[o].st = "none"}
UnusedRaws == {r \in RawIds : os[r] = "unused"}

\* The next value the OS hands out, and the next owner slot of the program.
FreshRaw == CHOOSE r \in UnusedRaws : \A q \in UnusedRaws : r <= q
FreshOwner == CHOOSE o \in FreeOwners : \A q \in FreeOwners : o <= q

\* A ProcessIter that holds no borrow of its Snapshot.
Borrowed_never(o) == FALSE

\* usize values: Usize(hi, lo) is hi * 2^32 + lo.
Usize(hi, lo) == [hi |-> hi, lo |-> lo]

\* Addresses the foreign allocators hand out.
BufIds == 1..MaxBuf

\* heap[b]: st is "unused", "live" or "freed"; prefix is the u32 byte count
\* stored in front of a BSTR; units are the cells from the address on.
NoBuffer == [st |-> "unused", by |-> "none", prefix |-> 0, units |-> <<>>]

\* Nothing done yet by a string operation.
NoOut == [op |-> "none", tag |-> "none", kind |-> "none", o |-> 0,
          ptr |-> NULL, consumed |-> 0, allocd |-> <<>>, freed |-> <<>>,
          value |-> 0]

\* An exclusive borrow (&mut Snapshot) held by a live ProcessIter.
Borrowed(o) == iter.st = "live" /\ iter.snap = o

Init ==
    /\ os = [r \in RawIds |-> "unused"]
    /\ lastError = 0
    /\ snapList = [r \in RawIds |-> <<>>]
    /\ snapPos = [r \in RawIds |-> 0]
    /\ owners = [o \in OwnerIds |-> NoOwner]
    /\ calls = [o \in OwnerIds |-> 0]
    /\ okCalls = [o \in OwnerIds |-> 0]
    /\ stale = {}
    /\ aliased = {}
    /\ iter = NoIter
    /\ last = NoResult
    /\ heap = [b \in BufIds |-> NoBuffer]
    /\ out = NoOut


\* ------------------------------------------------- the operating system

\* What the release function of an owning type returns: CloseHandle and
\* FreeLibrary return a BOOL, LocalFree returns NULL on success and the
\* pointer it was given on failure, CoTaskMemFree returns nothing.
ReleaseRet(kind, raw, good) ==
    CASE kind \in HandleKinds -> IF good THEN BOOL_TRUE ELSE BOOL_FALSE
      [] kind = "HModule" -> IF good THEN BOOL_TRUE ELSE BOOL_FALSE
      [] kind = "LocalWideString" -> IF good THEN NULL ELSE raw
      [] OTHER -> 0

\* The part of the state a release call reads and writes.
World == [os |-> os, lastError |-> lastError, calls |-> calls,
          okCalls |-> okCalls, stale |-> stale, ret |-> 0]

\* One release call issued through owner slot o on `raw`.  The OS frees an
\* open object when `ok`; on a released object the call always fails.  A
\* failing call sets the thread's last error.
ReleaseCall(W, o, kind, raw, ok) ==
    LET good == ok /\ IsOpen(W, raw)
    IN  [os |-> IF good THEN [W.os EXCEPT ![raw] = "released"] ELSE W.os,
         lastError |-> IF good THEN W.lastError ELSE OsError(W, raw),
         calls |-> [W.calls EXCEPT ![o] = @ + 1],
         okCalls |-> [W.okCalls EXCEPT ![o] = @ + (IF good THEN 1 ELSE 0)],
         stale |-> IF IsReleased(W, raw) THEN W.stale \cup {raw}
                                        ELSE W.stale,
         ret |-> ReleaseRet(kind, raw, good)]

\* CoTaskMemFree: no return value, no failure.
FreeCall(W, o, raw) ==
    [W EXCEPT !.os[raw] = "released",
              !.calls[o] = @ + 1,
              !.okCalls[o] = @ + (IF W.os[raw] = "open" THEN 1 ELSE 0),
              !.stale = IF W.os[raw] = "released" THEN @ \cup {raw} ELSE @]

Commit(W) ==
    /\ os' = W.os
    /\ lastError' = W.lastError
    /\ calls' = W.calls
    /\ okCalls' = W.okCalls
    /\ stale' = W.stale

\* ------------------------------------------------- results and owners

\* Result values: Ok(()) or Ok(owner), Err(code) or Err((owner, code)).
Ok == [tag |-> "Ok", owner |-> NoOwner, code |-> 0]
OkOwner(w) == [tag |-> "Ok", owner |-> w, code |-> 0]
Err(w, code) == [tag |-> "Err", owner |-> w, code |-> code]

Owner(kind, raw) == [kind |-> kind, raw |-> raw, st |-> "live"]

Result(op, o, w, ret, res) ==
    [op |-> op, o |-> o, kind |-> w.kind, raw |-> w.raw, ret |-> ret,
     tag |-> res.tag, code |-> res.code]

\* An explicit release (close, destroy) of slot o returns r.res to the caller:
\* on Ok the owner is gone, on Err the caller holds the owner r.res carries.
Released(op, o, r) ==
    /\ Commit(r.W)
    /\ owners' = [owners EXCEPT ![o] =
          IF r.res.tag = "Ok" THEN [owners[o] EXCEPT !.st = "closed"]
          ELSE r.res.owner]
    /\ last' = Result(op, o, owners[o], r.ret, r.res)
    /\ UNCHANGED <<snapList, snapPos, aliased, iter>>

\* Scope exit of slot o: Drop ran, nothing is returned to anyone.
Dropped(o, r) ==
    /\ Commit(r.W)
    /\ owners' = [owners EXCEPT ![o].st = "dropped"]
    /\ last' = [Result("drop", o, owners[o], r.ret, Ok) EXCEPT !.tag = "none"]
    /\ UNCHANGED <<snapList, snapPos, aliased, iter>>

\* A constructor returned res: an owner it carries takes the next slot.
Constructed(op, ret, res) ==
    /\ res.tag = "Ok" => FreeOwners # {}
    /\ owners' = IF res.tag = "Ok"
                 THEN [owners EXCEPT ![FreshOwner] = res.owner]
                 ELSE owners
    /\ last' = Result(op, IF res.tag = "Ok" THEN FreshOwner ELSE 0,
                      res.owner, ret, res)

\* A system call that creates a kernel object returns either its failure
\* value `failure` (and sets the last error) or a new raw value.
OsCreates(ret, failure) ==
    /\ ret = failure \/ (UnusedRaws # {} /\ ret = FreshRaw)
    /\ os' = IF ret = failure THEN os ELSE [os EXCEPT ![ret] = "open"]
    /\ lastError' = IF ret = failure THEN ERROR_ACCESS_DENIED ELSE lastError

\* ------------------------------------------------------------- Handle

\* Handle::close without ManuallyDrop: self is dropped when close returns
\* Ok(()), which calls CloseHandle again.
Handle_close_run_without_manually_drop(W, o, w, ok) ==
    LET W1 == ReleaseCall(W, o, "Handle", w.raw, ok)
        W2 == IF W1.ret # 0 THEN ReleaseCall(W1, o, "Handle", w.raw, ok)
              ELSE W1
    IN  [W |-> W2, ret |-> W1.ret,
         res |-> IF W1.ret # 0 THEN Ok
                 ELSE Err(Owner("Handle", w.raw), W1.lastError)]

\* Handle::close with the test of CloseHandle's return inverted.
Handle_close_run_inverted(W, o, w, ok) ==
    LET W1 == ReleaseCall(W, o, "Handle", w.raw, ok)
    IN  [W |-> W1, ret |-> W1.ret,
         res |-> IF W1.ret = 0 THEN Ok
                 ELSE Err(Owner("Handle", w.raw), W1.lastError)]

\* Handle::close: self goes into ManuallyDrop, CloseHandle is called once,
\* and the result is Ok(()) or Err((the handle taken back out of ManuallyDrop,
\* last_os_error())).
Handle_close_run(W, o, w, ok) ==
    LET W1 == ReleaseCall(W, o, "Handle", w.raw, ok)
    IN  [W |-> W1, ret |-> W1.ret,
         res |-> IF W1.ret # 0 THEN Ok
                 ELSE Err(Owner("Handle", w.raw), W1.lastError)]

\* Drop for Handle that forgets self instead of closing it.
Handle_drop_run_leaks(W, o, w, ok) ==
    [W |-> W, ret |-> 0, res |-> Ok]

\* Drop for Handle: std::mem::forget(Self(self.0).close()).
Handle_drop_run(W, o, w, ok) ==
    Handle_close_run(W, o, Owner("Handle", w.raw), ok)

\* Handle::into_raw without ManuallyDrop: self is dropped on return.
Handle_into_raw_run_drops_self(W, o, w) ==
    [W |-> ReleaseCall(W, o, "Handle", w.raw, TRUE), ret |-> w.raw]

\* Handle::into_raw: ManuallyDrop::new(self).0, no call is made.
Handle_into_raw_run(W, o, w) ==
    [W |-> W, ret |-> w.raw]

\* The caller obtains a raw handle from a system call of its own.
Caller_obtain_raw ==
    /\ UNCHANGED <<heap, out>>
    /\ UnusedRaws # {}
    /\ os' = [os EXCEPT ![FreshRaw] = "open"]
    /\ last' = [NoResult EXCEPT !.op = "obtain", !.raw = FreshRaw]
    /\ UNCHANGED <<lastError, snapList, snapPos, owners, calls, okCalls,
                   stale, aliased, iter>>

\* The caller releases a raw handle it is responsible for (one no live owner
\* wraps) with a system call of its own.
Caller_release_raw(h) ==
    /\ UNCHANGED <<heap, out>>
    /\ os[h] = "open"
    /\ LiveOwnersOf(h) = {}
    /\ os' = [os EXCEPT ![h] = "released"]
    /\ last' = [NoResult EXCEPT !.op = "caller_release", !.raw = h]
    /\ UNCHANGED <<lastError, snapList, snapPos, owners, calls,
                   okCalls, stale, aliased, iter>>

\* Handle::from_raw.  Safety contract: `handle` is a valid HANDLE and is
\* non-null.  Nothing else is checked: a handle that a live owner already
\* wraps is accepted.
Handle_from_raw(h) ==
    /\ UNCHANGED <<heap, out>>
    /\ h # NULL
    /\ os[h] = "open"
    /\ Constructed("from_raw", h, OkOwner(Owner("Handle", h)))
    /\ aliased' = IF LiveOwnersOf(h) # {} THEN aliased \cup {h} ELSE aliased
    /\ UNCHANGED <<os, lastError, snapList, snapPos, calls, okCalls,
                   stale, iter>>

\* Handle::as_raw: a copy of the raw value, the owner keeps the handle.
Handle_as_raw(o) ==
    /\ UNCHANGED <<heap, out>>
    /\ Live(o)
    /\ owners[o].kind = "Handle"
    /\ last' = [Result("as_raw", o, owners[o], owners[o].raw, Ok) EXCEPT
                   !.tag = "Raw"]
    /\ UNCHANGED <<os, lastError, snapList, snapPos, owners, calls, okCalls,
                   stale, aliased, iter>>

\* Handle::into_raw: consumes the owner, returns the raw value.
Handle_into_raw(o) ==
    /\ UNCHANGED <<heap, out>>
    /\ Live(o)
    /\ owners[o].kind = "Handle"
    /\ LET r == Handle_into_raw_run(World, o, owners[o])
       IN  /\ Commit(r.W)
           /\ last' = [Result("into_raw", o, owners[o], r.ret, Ok) EXCEPT
                          !.tag = "Raw"]
    /\ owners' = [owners EXCEPT ![o].st = "raw"]
    /\ UNCHANGED <<snapList, snapPos, aliased, iter>>

\* Handle::close: consumes the owner; on failure the owner comes back.
Handle_close(o) ==
    /\ UNCHANGED <<heap, out>>
    /\ Live(o)
    /\ owners[o].kind = "Handle"
    /\ calls[o] < MaxCalls
    /\ \E ok \in BOOLEAN :
         Released("close", o, Handle_close_run(World, o, owners[o], ok))

\* Scope exit of a live Handle, or of a Process or Snapshot (whose only
\* field is a Handle): Drop for Handle.
Handle_drop(o) ==
    /\ UNCHANGED <<heap, out>>
    /\ Live(o)
    /\ owners[o].kind \in HandleKinds
    /\ ~Borrowed(o)
    /\ \E ok \in BOOLEAN :
         Dropped(o, Handle_drop_run(World, o, owners[o], ok))

\* ------------------------------------------------------------ Process

\* What TerminateProcess may return: zero on failure, nonzero on success.
TerminateRets == {BOOL_FALSE, BOOL_TRUE, 2}

\* What WaitForSingleObject may return.
WaitRets == {WAIT_OBJECT_0, WAIT_TIMEOUT, WAIT_FAILED}

\* Process::open, the value returned for what OpenProcess returned.
Process_open_result(handle, err) ==
    IF handle = NULL THEN Err(NoOwner, err)
    ELSE OkOwner(Owner("Process", handle))

\* Process::terminate, the value returned for what TerminateProcess returned.
Process_terminate_result(ret, err) ==
    IF ret = BOOL_FALSE THEN Err(NoOwner, err) ELSE Ok

\* Process::wait that tests the wait result like a BOOL.
Process_wait_result_bool_test(ret, err) ==
    IF ret = BOOL_FALSE THEN Err(NoOwner, err) ELSE Ok

\* Process::wait, the value returned for what WaitForSingleObject returned.
Process_wait_result(ret, err) ==
    IF ret = WAIT_FAILED THEN Err(NoOwner, err) ELSE Ok

\* Process::close: self.0.close().map_err(|(handle, err)| (Self(handle), err)).
Process_close_run(W, o, w, ok) ==
    LET r == Handle_close_run(W, o, Owner("Handle", w.raw), ok)
    IN  IF r.res.tag = "Err"
        THEN [r EXCEPT !.res = Err(Owner("Process", r.res.owner.raw),
                                   r.res.code)]
        ELSE r

Process_open ==
    /\ UNCHANGED <<heap, out>>
    /\ \E ret \in {NULL} \cup RawIds :
        /\ OsCreates(ret, NULL)
        /\ Constructed("Process::open", ret, Process_open_result(ret, lastError'))
        /\ UNCHANGED <<snapList, snapPos, calls, okCalls, stale,
                       aliased, iter>>

\* A call on a live owner that returns Ok(()) or Err(last_os_error()) and
\* leaves every owner as it is.  The system call fails when `failed`.
Called(op, o, ret, failed, res) ==
    /\ lastError' = IF failed THEN OsError(World, owners[o].raw) ELSE lastError
    /\ last' = Result(op, o, owners[o], ret, res)
    /\ UNCHANGED <<os, snapList, snapPos, owners, calls, okCalls,
                   stale, aliased, iter>>

Process_terminate(o) ==
    /\ UNCHANGED <<heap, out>>
    /\ Live(o)
    /\ owners[o].kind = "Process"
    /\ \E ret \in TerminateRets :
         /\ ~IsOpen(World, owners[o].raw) => ret = BOOL_FALSE
         /\ Called("terminate", o, ret, ret = BOOL_FALSE,
                   Process_terminate_result(ret, lastError'))

Process_wait(o) ==
    /\ UNCHANGED <<heap, out>>
    /\ Live(o)
    /\ owners[o].kind = "Process"
    /\ \E ret \in WaitRets :
         /\ ~IsOpen(World, owners[o].raw) => ret = WAIT_FAILED
         /\ Called("wait", o, ret, ret = WAIT_FAILED,
                   Process_wait_result(ret, lastError'))

Process_close(o) ==
    /\ UNCHANGED <<heap, out>>
    /\ Live(o)
    /\ owners[o].kind = "Process"
    /\ calls[o] < MaxCalls
    /\ \E ok \in BOOLEAN :
         Released("close", o, Process_close_run(World, o, owners[o], ok))

\* ----------------------------------------------------------- Snapshot

\* Snapshot::new that tests for a null handle instead of INVALID_HANDLE_VALUE.
Snapshot_new_result_null_test(handle, err) ==
    IF handle = NULL THEN Err(NoOwner, err)
    ELSE OkOwner(Owner("Snapshot", handle))

\* Snapshot::new, the value returned for what CreateToolhelp32Snapshot
\* returned.
Snapshot_new_result(handle, err) ==
    IF handle = INVALID_HANDLE_VALUE THEN Err(NoOwner, err)
    ELSE OkOwner(Owner("Snapshot", handle))

\* Snapshot::close that wraps the handle of a failed close in the wrong type.
Snapshot_close_run_wrong_type(W, o, w, ok) ==
    LET r == Handle_close_run(W, o, Owner("Handle", w.raw), ok)
    IN  IF r.res.tag = "Err"
        THEN [r EXCEPT !.res = Err(Owner("Process", r.res.owner.raw),
                                   r.res.code)]
        ELSE r

\* Snapshot::close: self.0.close().map_err(|(handle, err)| (Self(handle), err)).
Snapshot_close_run(W, o, w, ok) ==
    LET r == Handle_close_run(W, o, Owner("Handle", w.raw), ok)
    IN  IF r.res.tag = "Err"
        THEN [r EXCEPT !.res = Err(Owner("Snapshot", r.res.owner.raw),
                                   r.res.code)]
        ELSE r

\* The process list a new snapshot holds: process ids 1..n.
ProcessList(n) == [i \in 1..n |-> i]

Snapshot_new ==
    /\ UNCHANGED <<heap, out>>
    /\ \E ret \in {INVALID_HANDLE_VALUE} \cup RawIds, n \in 0..MaxEntries :
        /\ OsCreates(ret, INVALID_HANDLE_VALUE)
        /\ ret = INVALID_HANDLE_VALUE => n = 0
        /\ snapList' = IF ret = INVALID_HANDLE_VALUE THEN snapList
                       ELSE [snapList EXCEPT ![ret] = ProcessList(n)]
        /\ Constructed("Snapshot::new", ret, Snapshot_new_result(ret, lastError'))
        /\ UNCHANGED <<snapPos, calls, okCalls, stale, aliased, iter>>

Snapshot_close(o) ==
    /\ UNCHANGED <<heap, out>>
    /\ Live(o)
    /\ owners[o].kind = "Snapshot"
    /\ ~Borrowed(o)
    /\ calls[o] < MaxCalls
    /\ \E ok \in BOOLEAN :
         Released("close", o, Snapshot_close_run(World, o, owners[o], ok))

\* Process32FirstW and Process32NextW on snapshot handle h with the cursor
\* at `pos`: the entry copied to the buffer (the buffer `cur` is left alone
\* on failure), the new position, and the BOOL returned.  The call fails at
\* the end of the list, on a handle that is not open, and whenever the OS
\* refuses it (`ok` false).
Process32(h, pos, cur, ok) ==
    IF ok /\ IsOpen(World, h) /\ pos + 1 <= Len(snapList[h])
    THEN [ret |-> BOOL_TRUE, pos |-> pos + 1, cur |-> snapList[h][pos + 1],
          err |-> lastError]
    ELSE [ret |-> BOOL_FALSE, pos |-> pos, cur |-> cur,
          err |-> IF ~IsOpen(World, h) THEN ERROR_INVALID_HANDLE
                  ELSE IF pos + 1 <= Len(snapList[h]) THEN ERROR_ACCESS_DENIED
                  ELSE ERROR_NO_MORE_FILES]

\* ProcessIter::from_snapshot: a zeroed cursor, then Process32FirstW.
ProcessIter_from_snapshot(o, c) ==
    [st |-> "live", snap |-> o, has_more |-> (c.ret = BOOL_TRUE),
     current |-> c.cur, yielded |-> <<>>]

\* ProcessIter::next that copies the entry out of the cursor after
\* Process32NextW has overwritten it.
ProcessIter_next_more_copies_late(it, c) ==
    [it EXCEPT !.has_more = (c.ret = BOOL_TRUE),
               !.current = c.cur,
               !.yielded = Append(@, c.cur)]

\* ProcessIter::next that never clears has_more.
ProcessIter_next_more_keeps_going(it, c) ==
    [it EXCEPT !.current = c.cur,
               !.yielded = Append(@, it.current)]

\* ProcessIter::next while has_more: the entry copied out of the cursor,
\* then Process32NextW into the cursor.
ProcessIter_next_more(it, c) ==
    [it EXCEPT !.has_more = (c.ret = BOOL_TRUE),
               !.current = c.cur,
               !.yielded = Append(@, it.current)]

\* ProcessIter::next that asks the OS again after has_more became false.
ProcessIter_next_result_asks_again(it, c) ==
    IF it.has_more \/ c.ret = BOOL_TRUE
    THEN [iter |-> ProcessIter_next_more(it, c), called |-> TRUE,
          tag |-> "Some", item |-> it.current]
    ELSE [iter |-> it, called |-> TRUE, tag |-> "None", item |-> 0]

\* ProcessIter::next: the iterator afterwards, whether Process32NextW was
\* called (c is what it returns), and the Option returned.
ProcessIter_next_result(it, c) ==
    IF it.has_more
    THEN [iter |-> ProcessIter_next_more(it, c), called |-> TRUE,
          tag |-> "Some", item |-> it.current]
    ELSE [iter |-> it, called |-> FALSE, tag |-> "None", item |-> 0]

\* Snapshot::iter_processes(&mut self).
Snapshot_iter_processes(o) ==
    /\ UNCHANGED <<heap, out>>
    /\ Live(o)
    /\ owners[o].kind = "Snapshot"
    /\ iter.st # "live"
    /\ \E ok \in BOOLEAN :
         LET h == owners[o].raw
             c == Process32(h, 0, 0, ok)
         IN  /\ iter' = ProcessIter_from_snapshot(o, c)
             /\ snapPos' = [snapPos EXCEPT ![h] = c.pos]
             /\ lastError' = c.err
             /\ last' = [Result("iter_processes", o, owners[o], c.ret, Ok)
                            EXCEPT !.tag = "Iter"]
    /\ UNCHANGED <<os, snapList, owners, calls, okCalls, stale,
                   aliased>>

\* Iterator::next for ProcessIter.
ProcessIter_next ==
    /\ UNCHANGED <<heap, out>>
    /\ iter.st = "live"
    /\ \E ok \in BOOLEAN :
         LET o == iter.snap
             h == owners[o].raw
             c == Process32(h, snapPos[h], iter.current, ok)
             r == ProcessIter_next_result(iter, c)
         IN  /\ iter' = r.iter
             /\ snapPos' = IF r.called THEN [snapPos EXCEPT ![h] = c.pos]
                           ELSE snapPos
             /\ lastError' = IF r.called THEN c.err ELSE lastError
             /\ last' = [Result("next", o, owners[o],
                                IF r.called THEN c.ret ELSE 0, Ok) EXCEPT
                            !.tag = r.tag, !.code = r.item]
    /\ UNCHANGED <<os, snapList, owners, calls, okCalls, stale,
                   aliased>>

\* The ProcessIter goes out of scope: the borrow of the Snapshot ends.
ProcessIter_drop ==
    /\ UNCHANGED <<heap, out>>
    /\ iter.st = "live"
    /\ iter' = NoIter
    /\ last' = [NoResult EXCEPT !.op = "iter_drop", !.o = iter.snap]
    /\ UNCHANGED <<os, lastError, snapList, snapPos, owners, calls,
                   okCalls, stale, aliased>>

\* ------------------------------------------------------------ HModule

\* HModule::load, the value returned for what LoadLibraryW returned.
HModule_load_result(hmodule, err) ==
    IF hmodule = NULL THEN Err(NoOwner, err)
    ELSE OkOwner(Owner("HModule", hmodule))

\* HModule::destroy: self goes into ManuallyDrop, FreeLibrary is called once.
HModule_destroy_run(W, o, w, ok) ==
    LET W1 == ReleaseCall(W, o, "HModule", w.raw, ok)
    IN  [W |-> W1, ret |-> W1.ret,
         res |-> IF W1.ret = 0 THEN Err(Owner("HModule", w.raw), W1.lastError)
                 ELSE Ok]

\* Drop for HModule that lets destroy()'s result go out of scope instead of
\* forgetting it: the HModule inside an Err is dropped in turn.
HModule_drop_run_drops_result(W, o, w, ok) ==
    LET r == HModule_destroy_run(W, o, Owner("HModule", w.raw), ok)
    IN  IF r.res.tag = "Err"
        THEN [r EXCEPT !.W = ReleaseCall(r.W, o, "HModule", w.raw, ok)]
        ELSE r

\* Drop for HModule: std::mem::forget(Self(self.0).destroy()).
HModule_drop_run(W, o, w, ok) ==
    HModule_destroy_run(W, o, Owner("HModule", w.raw), ok)

HModule_load ==
    /\ UNCHANGED <<heap, out>>
    /\ \E ret \in {NULL} \cup RawIds :
        /\ OsCreates(ret, NULL)
        /\ Constructed("HModule::load", ret, HModule_load_result(ret, lastError'))
        /\ UNCHANGED <<snapList, snapPos, calls, okCalls, stale, aliased,
                       iter>>

HModule_destroy(o) ==
    /\ UNCHANGED <<heap, out>>
    /\ Live(o)
    /\ owners[o].kind = "HModule"
    /\ calls[o] < MaxCalls
    /\ \E ok \in BOOLEAN :
         Released("destroy", o, HModule_destroy_run(World, o, owners[o], ok))

HModule_drop(o) ==
    /\ UNCHANGED <<heap, out>>
    /\ Live(o)
    /\ owners[o].kind = "HModule"
    /\ \E ok \in BOOLEAN :
         Dropped(o, HModule_drop_run(World, o, owners[o], ok))

\* ---------------------------------------------------- LocalWideString

\* HResult::message_with_hmodule, the value returned for the size
\* FormatMessageW returned and the buffer pointer it stored.
HResult_message_result(size, ptr, err) ==
    IF size = 0 \/ ptr = NULL THEN Err(NoOwner, err)
    ELSE OkOwner(Owner("LocalWideString", ptr))

\* LocalWideString::destroy that takes a null return of LocalFree for a
\* failure.
LocalWideString_destroy_run_inverted(W, o, w, ok) ==
    LET W1 == ReleaseCall(W, o, "LocalWideString", w.raw, ok)
    IN  [W |-> W1, ret |-> W1.ret,
         res |-> IF W1.ret # NULL THEN Ok
                 ELSE Err(Owner("LocalWideString", w.raw), W1.lastError)]

\* LocalWideString::destroy: LocalFree returns null when it freed the buffer.
LocalWideString_destroy_run(W, o, w, ok) ==
    LET W1 == ReleaseCall(W, o, "LocalWideString", w.raw, ok)
    IN  [W |-> W1, ret |-> W1.ret,
         res |-> IF W1.ret = NULL THEN Ok
                 ELSE Err(Owner("LocalWideString", w.raw), W1.lastError)]

\* Drop for LocalWideString: std::mem::forget(Self(self.0).destroy()).
LocalWideString_drop_run(W, o, w, ok) ==
    LocalWideString_destroy_run(W, o, Owner("LocalWideString", w.raw), ok)

\* HResult::message: FormatMessageW allocates the message buffer (size > 0
\* characters) or fails (size 0, the pointer left null).
HResult_message ==
    /\ UNCHANGED <<heap, out>>
    /\ \E ptr \in {NULL} \cup RawIds :
        /\ OsCreates(ptr, NULL)
        /\ Constructed("HResult::message", IF ptr = NULL THEN 0 ELSE 1,
               HResult_message_result(IF ptr = NULL THEN 0 ELSE 1, ptr,
                                      lastError'))
        /\ UNCHANGED <<snapList, snapPos, calls, okCalls, stale, aliased,
                       iter>>

LocalWideString_destroy(o) ==
    /\ UNCHANGED <<heap, out>>
    /\ Live(o)
    /\ owners[o].kind = "LocalWideString"
    /\ calls[o] < MaxCalls
    /\ \E ok \in BOOLEAN :
         Released("destroy", o,
                  LocalWideString_destroy_run(World, o, owners[o], ok))

LocalWideString_drop(o) ==
    /\ UNCHANGED <<heap, out>>
    /\ Live(o)
    /\ owners[o].kind = "LocalWideString"
    /\ \E ok \in BOOLEAN :
         Dropped(o, LocalWideString_drop_run(World, o, owners[o], ok))

\* ---------------------------------------------------- status-code calls

\* The HRESULTs the COM and shell calls may return.
HResults == {S_OK, S_FALSE, CO_E_NOTINITIALIZED}

\* winerror's FAILED macro.
FAILED(hr) == hr < 0

\* init_mta_com_runtime, the value returned for what CoIncrementMTAUsage
\* returned.
init_mta_com_runtime_result(code) ==
    IF FAILED(code) THEN Err(NoOwner, code) ELSE Ok

\* create_instance, the value returned for what CoCreateInstance returned.
create_instance_result(hr) ==
    IF FAILED(hr) THEN Err(NoOwner, hr) ELSE Ok

\* CoTaskMemWideString::from_raw: the owner of a non-null pointer.
CoTaskMemWideString_from_raw(ptr) == Owner("CoTaskMemWideString", ptr)

\* get_known_folder_path that hands the path back with the error instead of
\* letting it go out of scope.
get_known_folder_path_result_keeps_path(ret, path) ==
    IF ret # S_OK THEN Err(path, ret)
    ELSE IF path = NoOwner THEN [tag |-> "Panic", owner |-> NoOwner, code |-> 0]
    ELSE OkOwner(path)

\* get_known_folder_path that tests the status with FAILED.
get_known_folder_path_result_failed_test(ret, path) ==
    IF FAILED(ret) THEN Err(NoOwner, ret)
    ELSE IF path = NoOwner THEN [tag |-> "Panic", owner |-> NoOwner, code |-> 0]
    ELSE OkOwner(path)

\* get_known_folder_path, the value returned for the status and the path
\* pointer SHGetKnownFolderPath produced; `path` is the owner made of a
\* non-null pointer, NoOwner for a null one.
get_known_folder_path_result(ret, path) ==
    IF ret # S_OK THEN Err(NoOwner, ret)
    ELSE IF path = NoOwner THEN [tag |-> "Panic", owner |-> NoOwner, code |-> 0]
    ELSE OkOwner(path)

init_mta_com_runtime ==
    /\ UNCHANGED <<heap, out>>
    /\ \E code \in HResults :
        /\ last' = Result("init_mta_com_runtime", 0, NoOwner, code,
                          init_mta_com_runtime_result(code))
        /\ UNCHANGED <<os, lastError, snapList, snapPos, owners, calls,
                       okCalls, stale, aliased, iter>>

create_instance ==
    /\ UNCHANGED <<heap, out>>
    /\ \E hr \in HResults :
        /\ last' = Result("create_instance", 0, NoOwner, hr,
                          create_instance_result(hr))
        /\ UNCHANGED <<os, lastError, snapList, snapPos, owners, calls,
                       okCalls, stale, aliased, iter>>

\* get_known_folder_path: the path pointer is wrapped before the status is
\* looked at; an owner that is not returned goes out of scope.
get_known_folder_path ==
    /\ UNCHANGED <<heap, out>>
    /\ \E ret \in HResults, ptr \in {NULL} \cup RawIds :
        /\ ptr = NULL \/ (UnusedRaws # {} /\ ptr = FreshRaw /\ FreeOwners # {})
        /\ LET path == IF ptr = NULL THEN NoOwner
                       ELSE CoTaskMemWideString_from_raw(ptr)
               res == get_known_folder_path_result(ret, path)
               W0 == IF ptr = NULL THEN World
                     ELSE [World EXCEPT !.os[ptr] = "open"]
               W1 == IF ptr # NULL /\ res.owner = NoOwner
                     THEN FreeCall(W0, FreshOwner, ptr) ELSE W0
           IN  /\ Commit(W1)
               /\ owners' = IF ptr = NULL THEN owners
                            ELSE [owners EXCEPT ![FreshOwner] =
                                    IF res.owner = NoOwner
                                    THEN [path EXCEPT !.st = "dropped"]
                                    ELSE res.owner]
               /\ last' = [Result("get_known_folder_path",
                                  IF ptr = NULL THEN 0 ELSE FreshOwner,
                                  path, ret, res) EXCEPT !.raw = ptr]
        /\ UNCHANGED <<snapList, snapPos, aliased, iter>>

\* Drop for CoTaskMemWideString: CoTaskMemFree.
CoTaskMemWideString_drop(o) ==
    /\ UNCHANGED <<heap, out>>
    /\ Live(o)
    /\ owners[o].kind = "CoTaskMemWideString"
    /\ Dropped(o, [W |-> FreeCall(World, o, owners[o].raw), ret |-> 0])

\* ------------------------------------------------------ foreign strings

\* u32::try_from(usize): Ok(v) when the value fits 32 bits,
\* Err(TryFromIntError) otherwise.
U32_try_from(n) ==
    IF n.hi = 0 THEN [ok |-> TRUE, v |-> n.lo] ELSE [ok |-> FALSE, v |-> 0]

\* Code units (u16) of the wide slices: the terminator and a letter.
Units == {NUL, 97}

IsHighSurrogate(u) == 55296 <= u /\ u <= 56319
IsLowSurrogate(u) == 56320 <= u /\ u <= 57343

SeqsUpTo(S, n) == UNION {[1..k -> S] : k \in 0..n}

\* The wide slices and the OsStr values (sequences of code points in which
\* no high surrogate is followed by a low one) the operations are given.
WideSeqs == SeqsUpTo(Units, MaxLen)
OsStrs ==
    {s \in {<<>>, <<97>>, <<128512>>, <<97, 128512>>, <<55357, 97>>,
            <<NUL>>, <<97, NUL, 97>>} :
        \A i \in 1..(Len(s) - 1) :
            ~(IsHighSurrogate(s[i]) /\ IsLowSurrogate(s[i + 1]))}

\* OsStr::encode_wide: one unit for a code point of the basic plane, a
\* surrogate pair for any other.
RECURSIVE encode_wide(_)
encode_wide(s) ==
    IF s = <<>> THEN <<>>
    ELSE LET c == Head(s)
         IN  (IF c < 65536 THEN <<c>>
              ELSE <<55296 + ((c - 65536) \div 1024),
                     56320 + ((c - 65536) % 1024)>>)
             \o encode_wide(Tail(s))

\* OsString::from_wide: a high surrogate followed by a low one is one code
\* point, every other unit is a code point of its own.
RECURSIVE OsString_from_wide(_)
OsString_from_wide(w) ==
    IF w = <<>> THEN <<>>
    ELSE IF Len(w) >= 2 /\ IsHighSurrogate(w[1]) /\ IsLowSurrogate(w[2])
         THEN <<65536 + (w[1] - 55296) * 1024 + (w[2] - 56320)>>
              \o OsString_from_wide(Tail(Tail(w)))
         ELSE <<Head(w)>> \o OsString_from_wide(Tail(w))

UnusedBufs(H) == {b \in BufIds : H[b].st = "unused"}
FreshBuf(H) == CHOOSE b \in UnusedBufs(H) : \A q \in UnusedBufs(H) : b <= q

\* What an allocation call can return: null, or the next unused address.
AllocRets(H) == {NULL} \cup (IF UnusedBufs(H) = {} THEN {} ELSE {FreshBuf(H)})

\* The number of addresses in use or used up, and what an allocation call
\* can return to a program that is given n addresses.
Used(H) == Cardinality(BufIds \ UnusedBufs(H))
AllocRetsUpTo(H, n) == IF Used(H) < n THEN AllocRets(H) ELSE {NULL}

\* One buffer less than the heap holds is enough to build one string and
\* copy it, and one less again to build a single string.
PairBufs == MaxBuf - 1
StringBufs == MaxBuf - 2

\* The state a string operation runs on: the heap, the addresses the
\* allocators returned to it and the addresses it passed to a deallocator.
Mem(H) == [heap |-> H, allocd |-> <<>>, freed |-> <<>>]

\* SysAllocStringLen(strIn, len) returning p: len units copied from strIn
\* (left uninitialized when strIn is null) and a terminator, behind a
\* prefix of 2 * len bytes.
SysAllocStringLen(M, strIn, hasIn, len, p) ==
    IF p = NULL THEN [M EXCEPT !.allocd = Append(@, NULL)]
    ELSE [M EXCEPT
            !.allocd = Append(@, p),
            !.heap[p] = [st |-> "live", by |-> "SysAllocStringLen",
                         prefix |-> 2 * len,
                         units |-> [i \in 1..(len + 1) |->
                                      IF i = len + 1 THEN NUL
                                      ELSE IF hasIn THEN strIn[i]
                                      ELSE UNINIT]]]

\* CoTaskMemAlloc(cb) and LocalAlloc(0, cb) returning p: cb / size
\* uninitialized cells of `size` bytes each.
RawAlloc(M, by, cells, p) ==
    IF p = NULL THEN [M EXCEPT !.allocd = Append(@, NULL)]
    ELSE [M EXCEPT
            !.allocd = Append(@, p),
            !.heap[p] = [st |-> "live", by |-> by, prefix |-> 0,
                         units |-> [i \in 1..cells |-> UNINIT]]]

\* ptr.add(i).write(c): cell i (from 0) of the buffer at p.
WriteUnit(M, p, i, c) == [M EXCEPT !.heap[p].units[i + 1] = c]

\* SysFreeString, CoTaskMemFree: the buffer at p is given back, and what it
\* held is gone.
FreeBuf(M, p) ==
    [M EXCEPT !.freed = Append(@, p),
              !.heap[p] = [NoBuffer EXCEPT !.st = "freed",
                                           !.by = M.heap[p].by]]

\* ------------------------------------------------------------- BStr

\* Result<BStr, BStrCreationError> of a constructor, with the memory it left
\* and the number of elements it took from its source.
BStrOk(M, p, n) ==
    [M |-> M, tag |-> "Ok", kind |-> "none", ptr |-> p, consumed |-> n]
BStrErr(M, kind, n) ==
    [M |-> M, tag |-> "Err", kind |-> kind, ptr |-> NULL, consumed |-> n]
\* A panic of the operation: no value is returned.
Panicked(r) == [r EXCEPT !.tag = "Panic", !.ptr = NULL]

\* Drop for BStr that does not call the deallocator.
BStr_drop_run_leaks(M, p) == M

\* Drop for BStr that calls the deallocator twice.
BStr_drop_run_twice(M, p) == FreeBuf(FreeBuf(M, p), p)

\* Drop for BStr: SysFreeString(self.0).
BStr_drop_run(M, p) == FreeBuf(M, p)

\* usize::try_into::<u32> that keeps the low 32 bits.
BStr_len_u32_truncating(len) == [ok |-> TRUE, v |-> len.lo]

\* len.try_into().map_err(BStrCreationError::LenTooLarge).
BStr_len_u32(len) == U32_try_from(len)

\* `i >= len` and `str_len != len` for a small count and a usize.
CountGe(i, len) == len.hi = 0 /\ i >= len.lo
CountNe(n, len) == len.hi # 0 \/ n # len.lo

\* BStr::from_wide_iter, the loop over iter.enumerate() from index i on and
\* the length test after it.
RECURSIVE BStr_from_wide_iter_loop(_, _, _, _, _, _)
BStr_from_wide_iter_loop(M, p, items, len, i, str_len) ==
    IF i < Len(items)
    THEN IF CountGe(i, len)
         THEN BStrErr(BStr_drop_run(M, p), "IterTooLarge", i + 1)
         ELSE BStr_from_wide_iter_loop(WriteUnit(M, p, i, items[i + 1]),
                                       p, items, len, i + 1, str_len + 1)
    ELSE IF CountNe(str_len, len)
         THEN BStrErr(BStr_drop_run(M, p), "IterTooShort", i)
         ELSE BStrOk(M, p, i)

\* BStr::from_wide_iter(iter, len), the allocator returning p.
BStr_from_wide_iter(M, items, len, p) ==
    LET len_u32 == BStr_len_u32(len)
    IN  IF ~len_u32.ok THEN BStrErr(M, "LenTooLarge", 0)
        ELSE LET M1 == SysAllocStringLen(M, <<>>, FALSE, len_u32.v, p)
             IN  IF p = NULL THEN BStrErr(M1, "AllocFailed", 0)
                 ELSE BStr_from_wide_iter_loop(M1, p, items, len, 0, 0)

\* BStr::from_wide_slice(slice), the allocator returning p.
BStr_from_wide_slice(M, slice, p) ==
    LET len == BStr_len_u32(slice.len)
    IN  IF ~len.ok THEN BStrErr(M, "LenTooLarge", 0)
        ELSE LET M1 == SysAllocStringLen(M, slice.units, TRUE, len.v, p)
             IN  IF p = NULL THEN BStrErr(M1, "AllocFailed", 0)
                 ELSE BStrOk(M1, p, 0)

\* TryFrom<&OsStr> for BStr: the count of encode_wide, then from_wide_iter.
BStr_try_from_os_str(M, data, p) ==
    LET len == Usize(0, Len(encode_wide(data)))
    IN  BStr_from_wide_iter(M, encode_wide(data), len, p)

\* BStr::new that hands the error of try_new back as a value.
BStr_new_returns_error(M, data, p) == BStr_try_from_os_str(M, data, p)

\* BStr::new(data): try_new(data).expect("Valid BStr").
BStr_new(M, data, p) ==
    LET r == BStr_try_from_os_str(M, data, p)
    IN  IF r.tag = "Err" THEN Panicked(r) ELSE r

\* BStrRef::from_ptr that leaves the terminator out of the slice.
BStrRef_from_ptr_without_nul(H, ptr) ==
    SubSeq(H[ptr].units, 1, H[ptr].prefix \div 2)

\* BStrRef::from_ptr: the slice of (len / 2) + 1 units at ptr, len being the
\* u32 in front of it.
BStrRef_from_ptr(H, ptr) ==
    LET len == H[ptr].prefix
    IN  SubSeq(H[ptr].units, 1, (len \div 2) + 1)

\* BStrRef::len that counts the terminator in.
BStrRef_len_with_nul(inner) == Len(inner) * 2

\* BStrRef::len, is_empty, as_wide_slice, as_wide_slice_with_nul.
BStrRef_len(inner) == (Len(inner) * 2) - 2
BStrRef_is_empty(inner) == BStrRef_len(inner) = 0
BStrRef_as_wide_slice(inner) == SubSeq(inner, 1, Len(inner) - 1)
BStrRef_as_wide_slice_with_nul(inner) == inner

\* BStrRef::contains_nul that looks at the terminator too.
BStrRef_contains_nul_with_terminator(inner) ==
    \E i \in DOMAIN inner : inner[i] = 0

\* BStrRef::contains_nul: as_wide_slice().iter().any(|el| *el == 0).
BStrRef_contains_nul(inner) ==
    \E i \in DOMAIN BStrRef_as_wide_slice(inner) :
        BStrRef_as_wide_slice(inner)[i] = 0

\* BStrRef::to_os_string that decodes the terminator too.
BStrRef_to_os_string_with_nul(inner) ==
    OsString_from_wide(BStrRef_as_wide_slice_with_nul(inner))

\* BStrRef::to_os_string: OsString::from_wide(self.as_wide_slice()).
BStrRef_to_os_string(inner) == OsString_from_wide(BStrRef_as_wide_slice(inner))

\* ToOwned for BStrRef: BStr::new(self), which is from_wide_slice of
\* as_wide_slice() and expect.
BStrRef_to_owned(M, inner, p) ==
    LET w == BStrRef_as_wide_slice(inner)
        r == BStr_from_wide_slice(M, [len |-> Usize(0, Len(w)), units |-> w], p)
    IN  IF r.tag = "Err" THEN Panicked(r) ELSE r

\* -------------------------------------------- NUL-terminated strings

\* for (i, c) in units.enumerate() { write(ptr.add(i), c) } from index i on.
RECURSIVE CopyUnits(_, _, _, _)
CopyUnits(M, p, w, i) ==
    IF i < Len(w) THEN CopyUnits(WriteUnit(M, p, i, w[i + 1]), p, w, i + 1)
    ELSE M

\* CoTaskMemWideString::new that copies the data without the terminator.
CoTaskMemWideString_new_without_nul(M, data, p) ==
    LET len == Len(encode_wide(data)) + 1
        M1 == RawAlloc(M, "CoTaskMemAlloc", len, p)
    IN  IF p = NULL
        THEN [M |-> M1, tag |-> "None", kind |-> "none", ptr |-> NULL,
              consumed |-> 0]
        ELSE [M |-> CopyUnits(M1, p, encode_wide(data), 0),
              tag |-> "Some", kind |-> "none", ptr |-> p,
              consumed |-> len - 1]

\* CoTaskMemWideString::new(data), CoTaskMemAlloc returning p.
CoTaskMemWideString_new(M, data, p) ==
    LET len == Len(encode_wide(data)) + 1
        M1 == RawAlloc(M, "CoTaskMemAlloc", len, p)
    IN  IF p = NULL
        THEN [M |-> M1, tag |-> "None", kind |-> "none", ptr |-> NULL,
              consumed |-> 0]
        ELSE [M |-> CopyUnits(M1, p, encode_wide(data) \o <<NUL>>, 0),
              tag |-> "Some", kind |-> "none", ptr |-> p,
              consumed |-> len]

\* Iterator for Iter, counted: next() returns None at the first unit that is
\* zero, and otherwise the unit, moving the offset by one.
RECURSIVE Iter_count(_, _)
Iter_count(units, offset) ==
    IF units[offset + 1] = 0 THEN 0
    ELSE 1 + Iter_count(units, offset + 1)

\* CoTaskMemWideString::len that counts the units of the whole buffer.
CoTaskMemWideString_len_of_buffer(H, ptr) == Len(H[ptr].units) - 1

\* CoTaskMemWideString::len, as_slice, as_os_string.
CoTaskMemWideString_len(H, ptr) == Iter_count(H[ptr].units, 0)
CoTaskMemWideString_as_slice(H, ptr) ==
    SubSeq(H[ptr].units, 1, CoTaskMemWideString_len(H, ptr))
CoTaskMemWideString_as_os_string(H, ptr) ==
    OsString_from_wide(CoTaskMemWideString_as_slice(H, ptr))

\* lstrlenW: the number of units before the first zero.
RECURSIVE lstrlenW(_, _)
lstrlenW(units, i) ==
    IF units[i + 1] = 0 THEN i ELSE lstrlenW(units, i + 1)

\* LocalWideString::len, as_slice, as_os_string.
LocalWideString_len(H, ptr) == lstrlenW(H[ptr].units, 0)
LocalWideString_as_slice(H, ptr) ==
    SubSeq(H[ptr].units, 1, LocalWideString_len(H, ptr))
LocalWideString_as_os_string(H, ptr) ==
    OsString_from_wide(LocalWideString_as_slice(H, ptr))

\* DataBlob::from_slice(data), LocalAlloc returning p: both the length
\* conversion and the allocation are asserted.
DataBlob_from_slice(M, data, p) ==
    LET len_u32 == U32_try_from(data.len)
    IN  IF ~len_u32.ok
        THEN [M |-> M, tag |-> "Panic", kind |-> "LenTooLarge",
              ptr |-> NULL, consumed |-> 0]
        ELSE LET M1 == RawAlloc(M, "LocalAlloc", len_u32.v, p)
             IN  IF p = NULL
                 THEN [M |-> M1, tag |-> "Panic", kind |-> "AllocFailed",
                       ptr |-> NULL, consumed |-> 0]
                 ELSE [M |-> CopyUnits(M1, p, data.units, 0), tag |-> "Ok",
                       kind |-> "none", ptr |-> p, consumed |-> 0]

\* ------------------------------------------- string operations, as steps

\* The lengths and slices the constructors are called with; the last of each
\* has 2^32 elements, which are not spelled out.
Lens == {Usize(0, n) : n \in 0..MaxLen} \cup {Usize(1, 0)}
Slices ==
    {[len |-> Usize(0, Len(w)), units |-> w] : w \in WideSeqs}
        \cup {[len |-> Usize(1, 0), units |-> <<>>]}

\* A constructor of owning type `type` returned r: a value it returned takes
\* the next owner slot.
Built(op, type, r) ==
    LET made == r.tag \in {"Ok", "Some"}
    IN  /\ made => FreeOwners # {}
        /\ heap' = r.M.heap
        /\ owners' = IF made
                     THEN [owners EXCEPT ![FreshOwner] = Owner(type, r.ptr)]
                     ELSE owners
        /\ out' = [op |-> op, tag |-> r.tag, kind |-> r.kind,
                   o |-> IF made THEN FreshOwner ELSE 0, ptr |-> r.ptr,
                   consumed |-> r.consumed, allocd |-> r.M.allocd,
                   freed |-> r.M.freed, value |-> 0]
        /\ UNCHANGED <<os, lastError, snapList, snapPos, calls, okCalls,
                       stale, aliased, iter, last>>

BStr_from_wide_iter_call(items, len, p) ==
    Built("BStr::from_wide_iter", "BStr",
          BStr_from_wide_iter(Mem(heap), items, len, p))

BStr_from_wide_slice_call(slice, p) ==
    Built("BStr::from_wide_slice", "BStr",
          BStr_from_wide_slice(Mem(heap), slice, p))

BStr_new_call(data, p) ==
    Built("BStr::new", "BStr", BStr_new(Mem(heap), data, p))

BStrRef_to_owned_call(o, p) ==
    /\ Live(o)
    /\ owners[o].kind = "BStr"
    /\ Built("BStrRef::to_owned", "BStr",
             BStrRef_to_owned(Mem(heap),
                              BStrRef_from_ptr(heap, owners[o].raw), p))

\* A BStr goes out of scope.
BStr_drop(o) ==
    /\ Live(o)
    /\ owners[o].kind = "BStr"
    /\ LET M == BStr_drop_run(Mem(heap), owners[o].raw)
       IN  /\ heap' = M.heap
           /\ out' = [NoOut EXCEPT !.op = "BStr::drop", !.o = o,
                                   !.ptr = owners[o].raw, !.freed = M.freed]
    /\ owners' = [owners EXCEPT ![o].st = "dropped"]
    /\ calls' = [calls EXCEPT ![o] = @ + 1]
    /\ UNCHANGED <<os, lastError, snapList, snapPos, okCalls, stale, aliased,
                   iter, last>>

CoTaskMemWideString_new_call(data, p) ==
    Built("CoTaskMemWideString::new", "CoTaskMemWideString",
          CoTaskMemWideString_new(Mem(heap), data, p))

\* LocalWideString::from_raw(ptr) on a buffer the OS allocated with
\* LocalAlloc and filled with the NUL-terminated text w.
LocalWideString_from_raw_call(w) ==
    /\ UnusedBufs(heap) # {}
    /\ LET p == FreshBuf(heap)
           M == CopyUnits(RawAlloc(Mem(heap), "LocalAlloc", Len(w) + 1, p),
                          p, w \o <<NUL>>, 0)
       IN  Built("LocalWideString::from_raw", "LocalWideString",
                 [M |-> M, tag |-> "Ok", kind |-> "none", ptr |-> p,
                  consumed |-> 0])

\* len() of a NUL-terminated string.
WideString_len_call(o) ==
    /\ Live(o)
    /\ owners[o].kind \in {"CoTaskMemWideString", "LocalWideString"}
    /\ heap[owners[o].raw].st = "live"
    /\ out' = [NoOut EXCEPT
                 !.op = "len", !.o = o, !.ptr = owners[o].raw,
                 !.value = IF owners[o].kind = "CoTaskMemWideString"
                           THEN CoTaskMemWideString_len(heap, owners[o].raw)
                           ELSE LocalWideString_len(heap, owners[o].raw)]
    /\ UNCHANGED <<os, lastError, snapList, snapPos, owners, calls, okCalls,
                   stale, aliased, iter, last, heap>>

DataBlob_from_slice_call(data, p) ==
    Built("DataBlob::from_slice", "DataBlob",
          DataBlob_from_slice(Mem(heap), data, p))

\* ------------------------------------- BStr: comparison and ownership

\* PartialEq<BStrRef> for BStrRef: as_wide_slice().eq(other.as_wide_slice()).
BStrRef_eq(x, y) == BStrRef_as_wide_slice(x) = BStrRef_as_wide_slice(y)

\* Hash for BStrRef: as_wide_slice_with_nul().hash(state).  Hashing a slice
\* feeds the hasher the length and then the elements; the hash is a function
\* of what the hasher is fed.
BStrRef_hash(x) ==
    <<Len(BStrRef_as_wide_slice_with_nul(x))>>
        \o BStrRef_as_wide_slice_with_nul(x)

\* BStr equality that compares the pointers of the two allocations.
BStr_eq_by_pointer(H, p, q) == p = q

\* BStr::as_bstr_ref, and len() of a BStr, which Deref takes to its view.
BStr_as_bstr_ref(H, p) == BStrRef_from_ptr(H, p)
BStr_len(H, p) == BStrRef_len(BStr_as_bstr_ref(H, p))

\* PartialEq<BStr> for BStr, PartialEq<BStrRef> for BStr, PartialEq<BStr> for
\* BStrRef and Hash for BStr: each goes through as_bstr_ref().
BStr_eq(H, p, q) == BStrRef_eq(BStrRef_from_ptr(H, p), BStrRef_from_ptr(H, q))
BStr_eq_BStrRef(H, p, y) == BStrRef_eq(BStrRef_from_ptr(H, p), y)
BStrRef_eq_BStr(H, x, q) == BStrRef_eq(x, BStrRef_from_ptr(H, q))
BStr_hash(H, p) == BStrRef_hash(BStrRef_from_ptr(H, p))

\* The comparisons a caller can write between two BStr a and b and their
\* views.
Comparisons ==
    {"BStr == BStr", "BStr == BStrRef", "BStrRef == BStr",
     "BStrRef == BStrRef", "hash(BStr) == hash(BStr)",
     "hash(BStrRef) == hash(BStr)"}

Compare(H, p, q, how) ==
    LET x == BStrRef_from_ptr(H, p)
        y == BStrRef_from_ptr(H, q)
    IN  CASE how = "BStr == BStr" -> BStr_eq(H, p, q)
          [] how = "BStr == BStrRef" -> BStr_eq_BStrRef(H, p, y)
          [] how = "BStrRef == BStr" -> BStrRef_eq_BStr(H, x, q)
          [] how = "BStrRef == BStrRef" -> BStrRef_eq(x, y)
          [] how = "hash(BStr) == hash(BStr)"
               -> BStr_hash(H, p) = BStr_hash(H, q)
          [] how = "hash(BStrRef) == hash(BStr)"
               -> BStrRef_hash(x) = BStr_hash(H, q)

\* a and b, or their views, are compared; nothing but the answer changes.
BStr_compare(a, b, how) ==
    /\ Live(a) /\ owners[a].kind = "BStr"
    /\ Live(b) /\ owners[b].kind = "BStr"
    /\ out' = [NoOut EXCEPT
                 !.op = how, !.o = a, !.ptr = owners[b].raw,
                 !.tag = IF Compare(heap, owners[a].raw, owners[b].raw, how)
                         THEN "true" ELSE "false"]
    /\ UNCHANGED <<os, lastError, snapList, snapPos, owners, calls, okCalls,
                   stale, aliased, iter, last, heap>>

\* BStr::into_raw that lets `self` drop.
BStr_into_raw_run_drops_self(M, p) == FreeBuf(M, p)

\* BStr::into_raw: ManuallyDrop::new(self).0, no Drop runs.
BStr_into_raw_run(M, p) == M

BStr_into_raw(o) ==
    /\ Live(o)
    /\ owners[o].kind = "BStr"
    /\ LET M == BStr_into_raw_run(Mem(heap), owners[o].raw)
       IN  /\ heap' = M.heap
           /\ out' = [NoOut EXCEPT !.op = "BStr::into_raw", !.o = o,
                                   !.tag = "Ok", !.ptr = owners[o].raw,
                                   !.freed = M.freed]
    /\ owners' = [owners EXCEPT ![o].st = "raw"]
    /\ UNCHANGED <<os, lastError, snapList, snapPos, calls, okCalls, stale,
                   aliased, iter, last>>

\* The BSTR pointers the caller holds with no owner: those into_raw returned
\* and nobody took back.
RawBStrs ==
    {b \in BufIds :
        /\ heap[b].st = "live"
        /\ heap[b].by = "SysAllocStringLen"
        /\ \A o \in OwnerIds : Live(o) => owners[o].raw # b}

\* BStr::from_raw(ptr): assert!(!ptr.is_null()); Self(ptr).
BStr_from_raw(M, ptr) ==
    IF ptr = NULL THEN Panicked(BStrErr(M, "none", 0))
    ELSE BStrOk(M, ptr, 0)

BStr_from_raw_call(ptr) ==
    Built("BStr::from_raw", "BStr", BStr_from_raw(Mem(heap), ptr))

\* ------------------------------------------------------------ DataBlob

\* DataBlob::as_mut_ptr: &mut self.0, the address of the DATA_BLOB structure of
\* the DataBlob in owner slot o (slot 0: a local of the running function): a
\* place on the stack, outside the heap.
DataBlob_as_mut_ptr(o) == -(o + 2)

\* LocalFree(hMem): frees a live buffer of the heap and returns null, or, when
\* the OS refuses, returns hMem.  Given an address that is no live buffer it
\* frees nothing, and what it returns is not defined: null or hMem.
LocalFree(M, hMem, ok) ==
    IF hMem \in BufIds /\ M.heap[hMem].st = "live" /\ ok
    THEN [M |-> FreeBuf(M, hMem), ret |-> NULL]
    ELSE [M |-> [M EXCEPT !.freed = Append(@, hMem)],
          ret |-> IF ok THEN NULL ELSE hMem]

\* DataBlob::destroy of the DataBlob in slot o, whose data pointer is pbData:
\* LocalFree(blob.as_mut_ptr().cast()), Ok(()) when it returns null.
DataBlob_destroy_run(M, o, pbData, ok) ==
    LET r == LocalFree(M, DataBlob_as_mut_ptr(o), ok)
    IN  [M |-> r.M, ret |-> r.ret,
         tag |-> IF r.ret = NULL THEN "Ok" ELSE "Err"]

\* Drop for DataBlob: std::mem::forget(Self(self.0).destroy()).
DataBlob_drop_run(M, o, pbData, ok) == DataBlob_destroy_run(M, o, pbData, ok)

DataBlob_destroy(o) ==
    /\ Live(o)
    /\ owners[o].kind = "DataBlob"
    /\ calls[o] < MaxCalls
    /\ \E ok \in BOOLEAN :
         LET r == DataBlob_destroy_run(Mem(heap), o, owners[o].raw, ok)
         IN  /\ heap' = r.M.heap
             /\ owners' = IF r.tag = "Ok"
                          THEN [owners EXCEPT ![o].st = "closed"]
                          ELSE owners
             /\ lastError' = IF r.tag = "Ok" THEN lastError
                             ELSE ERROR_INVALID_HANDLE
             /\ out' = [NoOut EXCEPT !.op = "DataBlob::destroy", !.o = o,
                                     !.tag = r.tag, !.ptr = owners[o].raw,
                                     !.freed = r.M.freed]
    /\ calls' = [calls EXCEPT ![o] = @ + 1]
    /\ UNCHANGED <<os, snapList, snapPos, okCalls, stale, aliased, iter,
                   last>>

DataBlob_drop(o) ==
    /\ Live(o)
    /\ owners[o].kind = "DataBlob"
    /\ \E ok \in BOOLEAN :
         LET r == DataBlob_drop_run(Mem(heap), o, owners[o].raw, ok)
         IN  /\ heap' = r.M.heap
             /\ lastError' = IF r.tag = "Ok" THEN lastError
                             ELSE ERROR_INVALID_HANDLE
             /\ out' = [NoOut EXCEPT !.op = "DataBlob::drop", !.o = o,
                                     !.ptr = owners[o].raw,
                                     !.freed = r.M.freed]
    /\ owners' = [owners EXCEPT ![o].st = "dropped"]
    /\ calls' = [calls EXCEPT ![o] = @ + 1]
    /\ UNCHANGED <<os, snapList, snapPos, okCalls, stale, aliased, iter,
                   last>>

\* crypt_unprotect_data(encrypted) for a byte slice: `encrypted` becomes a
\* DataBlob of the function (LocalAlloc returning p), CryptUnprotectData
\* returns `ret`, stores the description pointer dptr (null, or a string it
\* allocated) and on success fills the decrypted blob with a buffer it
\* allocated; the description is wrapped before `ret` is looked at.  At the
\* end the locals still owned go out of scope: the description when the call
\* failed (okD: what LocalFree does for it), then `encrypted` (okE).
crypt_unprotect_data(data, p, ret, dptr, okD, okE) ==
    LET enc == DataBlob_from_slice(Mem(heap), data, p)
        panicked == enc.tag = "Panic"
        success == ret # BOOL_FALSE
        described == dptr # NULL
        sD == FreshOwner
        sB == IF described
              THEN CHOOSE o \in FreeOwners \ {sD} :
                      \A q \in FreeOwners \ {sD} : o <= q
              ELSE FreshOwner
        p2 == FreshBuf(enc.M.heap)
        M1 == IF success
              THEN [enc.M EXCEPT
                      !.heap[p2] = [st |-> "live", by |-> "LocalAlloc",
                                    prefix |-> 0, units |-> data.units]]
              ELSE enc.M
        W0 == [World EXCEPT
                 !.os = IF described THEN [@ EXCEPT ![dptr] = "open"] ELSE @,
                 !.lastError = IF success THEN @ ELSE ERROR_ACCESS_DENIED]
        description == Owner("LocalWideString", dptr)
        W1 == IF described /\ ~success
              THEN LocalWideString_drop_run(W0, sD, description, okD).W
              ELSE W0
        M2 == DataBlob_drop_run(M1, 0, p, okE).M
    IN  IF panicked
        THEN /\ heap' = enc.M.heap
             /\ out' = [NoOut EXCEPT !.op = "crypt_unprotect_data",
                                     !.tag = "Panic", !.kind = enc.kind,
                                     !.allocd = enc.M.allocd]
             /\ UNCHANGED <<os, lastError, owners, calls, okCalls, stale>>
        ELSE /\ dptr = NULL \/ (UnusedRaws # {} /\ dptr = FreshRaw)
             /\ success => UnusedBufs(enc.M.heap) # {}
             /\ Cardinality(FreeOwners) >=
                  (IF described THEN 1 ELSE 0) + (IF success THEN 1 ELSE 0)
             /\ heap' = M2.heap
             /\ Commit(W1)
             /\ owners' =
                  [o \in OwnerIds |->
                     IF described /\ o = sD
                     THEN IF success THEN description
                          ELSE [description EXCEPT !.st = "dropped"]
                     ELSE IF success /\ o = sB THEN Owner("DataBlob", p2)
                     ELSE owners[o]]
             /\ out' = [NoOut EXCEPT
                          !.op = "crypt_unprotect_data",
                          !.tag = IF success THEN "Ok" ELSE "Err",
                          !.o = IF success THEN sB ELSE 0,
                          !.ptr = IF success THEN p2 ELSE NULL,
                          !.value = IF described THEN sD ELSE 0,
                          !.allocd = enc.M.allocd,
                          !.freed = M2.freed]

crypt_unprotect_data_call(data, p, ret, dptr) ==
    /\ \E okD \in IF dptr # NULL /\ ret = BOOL_FALSE THEN BOOLEAN ELSE {TRUE},
          okE \in BOOLEAN :
         crypt_unprotect_data(data, p, ret, dptr, okD, okE)
    /\ UNCHANGED <<snapList, snapPos, aliased, iter, last>>

\* ------------------------------------------------------ specifications

\* The Handle API on raw handles of the caller.
NextHandle ==
    \/ Caller_obtain_raw
    \/ \E h \in RawIds : Caller_release_raw(h)
    \/ \E h \in RawIds : Handle_from_raw(h)
    \/ \E o \in OwnerIds : Handle_as_raw(o)
    \/ \E o \in OwnerIds : Handle_into_raw(o)
    \/ \E o \in OwnerIds : Handle_close(o)
    \/ \E o \in OwnerIds : Handle_drop(o)

\* The resources built on a handle, a module or a local buffer.
NextResource ==
    \/ Process_open
    \/ \E o \in OwnerIds : Process_terminate(o)
    \/ \E o \in OwnerIds : Process_wait(o)
    \/ \E o \in OwnerIds : Process_close(o)
    \/ Snapshot_new
    \/ \E o \in OwnerIds : Snapshot_close(o)
    \/ \E o \in OwnerIds : Snapshot_iter_processes(o)
    \/ ProcessIter_next
    \/ ProcessIter_drop
    \/ \E o \in OwnerIds : Handle_drop(o)
    \/ HModule_load
    \/ \E o \in OwnerIds : HModule_destroy(o)
    \/ \E o \in OwnerIds : HModule_drop(o)
    \/ HResult_message
    \/ \E o \in OwnerIds : LocalWideString_destroy(o)
    \/ \E o \in OwnerIds : LocalWideString_drop(o)

\* The calls that return a status code, and the message of a status code.
NextCom ==
    \/ init_mta_com_runtime
    \/ create_instance
    \/ get_known_folder_path
    \/ \E o \in OwnerIds : CoTaskMemWideString_drop(o)
    \/ HResult_message
    \/ \E o \in OwnerIds : LocalWideString_destroy(o)
    \/ \E o \in OwnerIds : LocalWideString_drop(o)

Spec == Init /\ [][NextHandle]_vars

SpecResource == Init /\ [][NextResource]_vars

SpecCom == Init /\ [][NextCom]_vars

\* The length-prefixed strings.
NextBStr ==
    \/ \E items \in WideSeqs, len \in Lens,
          p \in AllocRetsUpTo(heap, StringBufs) :
         BStr_from_wide_iter_call(items, len, p)
    \/ \E slice \in Slices, p \in AllocRetsUpTo(heap, StringBufs) :
         BStr_from_wide_slice_call(slice, p)
    \/ \E data \in OsStrs, p \in AllocRetsUpTo(heap, StringBufs) :
         BStr_new_call(data, p)
    \/ \E o \in OwnerIds, p \in AllocRetsUpTo(heap, StringBufs) :
         BStrRef_to_owned_call(o, p)
    \/ \E o \in OwnerIds : BStr_drop(o)

SpecBStr == Init /\ [][NextBStr]_vars

\* Every allocating entry point, and the NUL-terminated strings.
NextString ==
    \/ \E items \in WideSeqs, len \in Lens,
          p \in AllocRetsUpTo(heap, StringBufs) :
         BStr_from_wide_iter_call(items, len, p)
    \/ \E slice \in Slices, p \in AllocRetsUpTo(heap, StringBufs) :
         BStr_from_wide_slice_call(slice, p)
    \/ \E data \in OsStrs, p \in AllocRetsUpTo(heap, StringBufs) :
         BStr_new_call(data, p)
    \/ \E o \in OwnerIds, p \in AllocRetsUpTo(heap, StringBufs) :
         BStrRef_to_owned_call(o, p)
    \/ \E data \in OsStrs, p \in AllocRetsUpTo(heap, StringBufs) :
         CoTaskMemWideString_new_call(data, p)
    \/ \E w \in WideSeqs :
         Used(heap) < StringBufs /\ LocalWideString_from_raw_call(w)
    \/ \E o \in OwnerIds : WideString_len_call(o)
    \/ \E data \in Slices, p \in AllocRetsUpTo(heap, StringBufs) :
         DataBlob_from_slice_call(data, p)

SpecString == Init /\ [][NextString]_vars

\* One BStr, its copy, their comparisons and their passage through raw
\* pointers.
NextOwned ==
    \/ \E data \in OsStrs, p \in AllocRetsUpTo(heap, PairBufs) :
         BStr_new_call(data, p)
    \/ \E o \in OwnerIds, p \in AllocRetsUpTo(heap, PairBufs) :
         BStrRef_to_owned_call(o, p)
    \/ \E a \in OwnerIds, b \in OwnerIds, how \in Comparisons :
         BStr_compare(a, b, how)
    \/ \E o \in OwnerIds : BStr_into_raw(o)
    \/ \E ptr \in {NULL} \cup RawBStrs : BStr_from_raw_call(ptr)
    \/ \E o \in OwnerIds : BStr_drop(o)

SpecOwned == Init /\ [][NextOwned]_vars

\* A caller that enumerates snapshots and, while it holds an iterator, goes
\* on calling next().
NextEnum ==
    \/ Snapshot_new
    \/ \E o \in OwnerIds : Snapshot_close(o)
    \/ \E o \in OwnerIds : Snapshot_iter_processes(o)
    \/ ProcessIter_next
    \/ ProcessIter_drop

SpecEnum == Init /\ [][NextEnum]_vars /\ WF_vars(ProcessIter_next)

\* The byte slices a DataBlob is made of: what matters is how long they are.
ByteSlices == {sl \in Slices : \A i \in DOMAIN sl.units : sl.units[i] = 97}

\* DataBlob, from its construction to its release.
NextBlob ==
    \/ \E data \in ByteSlices, p \in AllocRetsUpTo(heap, StringBufs) :
         DataBlob_from_slice_call(data, p)
    \/ \E o \in OwnerIds : DataBlob_destroy(o)
    \/ \E o \in OwnerIds : DataBlob_drop(o)
    \/ \E data \in ByteSlices, p \in AllocRetsUpTo(heap, StringBufs),
          ret \in {BOOL_FALSE, BOOL_TRUE}, dptr \in {NULL} \cup RawIds :
         crypt_unprotect_data_call(data, p, ret, dptr)

SpecBlob == Init /\ [][NextBlob]_vars

\* The two calls that wrap a string the foreign call allocated, and the end
\* of the strings they return.
NextWrap ==
    \/ get_known_folder_path
    \/ \E data \in ByteSlices, p \in AllocRetsUpTo(heap, StringBufs),
          ret \in {BOOL_FALSE, BOOL_TRUE}, dptr \in {NULL} \cup RawIds :
         crypt_unprotect_data_call(data, p, ret, dptr)
    \/ \E o \in OwnerIds : CoTaskMemWideString_drop(o)
    \/ \E o \in OwnerIds : LocalWideString_drop(o)

SpecWrap == Init /\ [][NextWrap]_vars

\* ---------------------------------------------------------------- claims

\* C1: Handle::close issues CloseHandle exactly once per call on the wrapped
\* raw handle; when the call reports success the owner is consumed, and no
\* later step issues a release call through the consumed owner (no Drop runs
\* for it): its call count and its state never change again.
C1_CloseReleasesOnce ==
    [][\A o \in OwnerIds :
         /\ Handle_close(o) =>
              /\ calls'[o] = calls[o] + 1
              /\ last'.raw = owners[o].raw
              /\ last'.ret # 0 =>
                   /\ last'.tag = "Ok"
                   /\ owners'[o].st = "closed"
                   /\ okCalls'[o] = okCalls[o] + 1
         /\ owners[o].st = "closed" =>
              /\ calls'[o] = calls[o]
              /\ owners'[o] = owners[o]]_vars

\* A Handle was closed by one successful call: the owner is consumed and
\* the handle released.
C1_Witness ==
    /\ last.op = "close"
    /\ last.kind = "Handle"
    /\ last.tag = "Ok"
    /\ owners[last.o].st = "closed"
    /\ calls[last.o] = 1
    /\ okCalls[last.o] = 1
    /\ IsReleased(World, last.raw)
    /\ stale = {}

\* C2: when CloseHandle reports failure (returns 0), Handle::close returns
\* Err carrying a live Handle of the same raw value and the thread's last OS
\* error; no release has succeeded through that owner, and close() can be
\* called on it again.
C2_CloseFailureReturnsOwner ==
    (last.op = "close" /\ last.kind = "Handle" /\ last.ret = 0) =>
        /\ last.tag = "Err"
        /\ owners[last.o] = Owner("Handle", last.raw)
        /\ last.code = lastError
        /\ last.code # 0
        /\ okCalls[last.o] = 0
        /\ calls[last.o] < MaxCalls => ENABLED Handle_close(last.o)

\* A Handle whose first close failed and whose second close succeeded.
C2_Witness ==
    /\ last.op = "close"
    /\ last.kind = "Handle"
    /\ last.tag = "Ok"
    /\ calls[last.o] = 2
    /\ okCalls[last.o] = 1
    /\ owners[last.o].st = "closed"

\* C3 as stated: in every reachable state each live Handle denotes a raw
\* handle not yet released, each raw handle has at most one live owner, and
\* no release call was ever issued on a handle already released.
C3_Original ==
    /\ stale = {}
    /\ \A o \in OwnerIds :
         (Live(o) /\ owners[o].kind = "Handle") =>
             /\ IsOpen(World, owners[o].raw)
             /\ LiveOwnersOf(owners[o].raw) = {o}

\* C3 as amended: the same, for every raw handle that from_raw never wrapped
\* while a live owner already held it.
C3_NoDoubleRelease ==
    /\ stale \subseteq aliased
    /\ \A o \in OwnerIds :
         (Live(o) /\ owners[o].kind = "Handle" /\ owners[o].raw \notin aliased)
             => /\ IsOpen(World, owners[o].raw)
                /\ LiveOwnersOf(owners[o].raw) = {o}

\* A raw handle given up by into_raw and wrapped again by from_raw: one live
\* owner, the handle still open.
C3_Witness ==
    /\ aliased = {}
    /\ owners[1].st = "raw"
    /\ Live(2)
    /\ owners[2].raw = owners[1].raw
    /\ last.op = "close"
    /\ last.tag = "Err"

\* C4: the step that ends the lifetime of a Handle never passed to into_raw
\* (a close that succeeds, or the scope exit) issues one release call on its
\* raw handle; after that step no further call is issued through it, and at
\* most one release through an owner ever succeeds.
C4_ReleasedByEndOfLifetime ==
    [][\A o \in OwnerIds :
         /\ (Live(o) /\ owners'[o].st \in {"closed", "dropped"}) =>
              /\ calls'[o] = calls[o] + 1
              /\ owners'[o].raw = owners[o].raw
         /\ owners[o].st \in {"closed", "dropped"} =>
              /\ calls'[o] = calls[o]
              /\ okCalls'[o] = okCalls[o]
         /\ owners'[o].st = "closed" => okCalls'[o] = 1
         /\ okCalls'[o] <= 1]_vars

\* A Handle whose close failed and that was then released when it went out
\* of scope.
C4_Witness ==
    /\ last.op = "drop"
    /\ owners[last.o].st = "dropped"
    /\ calls[last.o] = 2
    /\ okCalls[last.o] = 1

\* C6: Handle::into_raw returns the wrapped raw value and issues no release
\* call; no step issues a call through the consumed owner afterwards; and a
\* handle that no live owner wraps stays open until the caller releases it.
C6_IntoRawReleasesNothing ==
    [][/\ \A o \in OwnerIds :
            /\ Handle_into_raw(o) =>
                 /\ calls' = calls
                 /\ os' = os
                 /\ last'.ret = owners[o].raw
                 /\ owners'[o].st = "raw"
            /\ owners[o].st = "raw" =>
                 /\ calls'[o] = calls[o]
                 /\ owners'[o] = owners[o]
       /\ \A h \in RawIds :
            (os[h] = "open" /\ LiveOwnersOf(h) = {} /\ os'[h] # "open")
                => last'.op = "caller_release"]_vars

\* into_raw consumed a Handle that never issued a call, and the caller then
\* released the raw handle itself.
C6_Witness ==
    \E o \in OwnerIds :
        /\ owners[o].st = "raw"
        /\ calls[o] = 0
        /\ os[owners[o].raw] = "released"
        /\ last.op = "caller_release"

\* C5: the implicit release on scope exit (Drop of Handle, HModule,
\* LocalWideString) issues the release call exactly once, with the effect on
\* the OS of one explicit close/destroy; nothing is reported, the owner inside
\* a failure result is forgotten (no owner is left and no second call is
\* made), and no step issues a call through the dropped owner afterwards.
C5_DropReleasesOnceSilently ==
    [][\A o \in OwnerIds :
         LET w == owners[o]
         IN /\ (Live(o) /\ owners'[o].st = "dropped"
                  /\ w.kind \in HandleKinds \cup {"HModule", "LocalWideString"})
               => /\ calls'[o] = calls[o] + 1
                  /\ last'.op = "drop"
                  /\ last'.tag = "none"
                  /\ last'.code = 0
                  /\ owners' = [owners EXCEPT ![o].st = "dropped"]
                  /\ \E ok \in BOOLEAN :
                       LET r == CASE w.kind \in HandleKinds ->
                                       Handle_close_run(World, o,
                                           Owner("Handle", w.raw), ok)
                                  [] w.kind = "HModule" ->
                                       HModule_destroy_run(World, o, w, ok)
                                  [] w.kind = "LocalWideString" ->
                                       LocalWideString_destroy_run(World, o,
                                                                   w, ok)
                       IN  /\ os' = r.W.os
                           /\ lastError' = r.W.lastError
                           /\ okCalls' = r.W.okCalls
            /\ owners[o].st = "dropped" =>
                  /\ calls'[o] = calls[o]
                  /\ owners'[o] = owners[o]]_vars

\* An HModule went out of scope and FreeLibrary failed: one call, nothing
\* reported, the module still loaded.
C5_Witness ==
    /\ last.op = "drop"
    /\ last.kind = "HModule"
    /\ last.ret = 0
    /\ owners[last.o].st = "dropped"
    /\ calls[last.o] = 1
    /\ okCalls[last.o] = 0
    /\ IsOpen(World, last.raw)

\* C7: Process::close and Snapshot::close do what Handle::close does on the
\* embedded handle; on success the owner is consumed and no later call is
\* issued through it; on failure the caller gets back a live owner of the
\* same type and the same raw handle, still open, with the last OS error.
C7_DerivedCloseForwards ==
    [][\A o \in OwnerIds :
         LET w == owners[o]
         IN /\ (Process_close(o) \/ Snapshot_close(o)) =>
                  /\ \E ok \in BOOLEAN :
                       LET r == Handle_close_run(World, o,
                                    Owner("Handle", w.raw), ok)
                       IN  /\ os' = r.W.os
                           /\ calls' = r.W.calls
                           /\ last'.ret = r.ret
                           /\ last'.tag = r.res.tag
                           /\ last'.code = r.res.code
                  /\ last'.tag = "Ok" =>
                       /\ owners'[o].st = "closed"
                       /\ os'[w.raw] = "released"
                  /\ last'.tag = "Err" =>
                       /\ owners'[o] = Owner(w.kind, w.raw)
                       /\ os'[w.raw] = "open"
                       /\ last'.code = lastError'
            /\ (owners[o].st = "closed" /\ w.kind \in {"Process", "Snapshot"})
               => /\ calls'[o] = calls[o]
                  /\ owners'[o] = owners[o]]_vars

\* A Snapshot whose first close failed was closed by a second close.
C7_Witness ==
    /\ last.op = "close"
    /\ last.kind = "Snapshot"
    /\ last.tag = "Ok"
    /\ calls[last.o] = 2
    /\ okCalls[last.o] = 1
    /\ owners[last.o].st = "closed"

\* C8: Process::open, Snapshot::new and HModule::load return an OS error
\* exactly when the underlying call returns its failure value (null for
\* OpenProcess and LoadLibraryW, INVALID_HANDLE_VALUE for
\* CreateToolhelp32Snapshot); then no owner is created and no release call is
\* issued; for every other return value the result is a new live owner of
\* exactly the returned handle.
C8_ConstructorsCheckSentinel ==
    [][\A op \in {"Process::open", "Snapshot::new", "HModule::load"} :
         LET failure == IF op = "Snapshot::new" THEN INVALID_HANDLE_VALUE
                        ELSE NULL
             kind == CASE op = "Process::open" -> "Process"
                       [] op = "Snapshot::new" -> "Snapshot"
                       [] op = "HModule::load" -> "HModule"
             step == CASE op = "Process::open" -> Process_open
                       [] op = "Snapshot::new" -> Snapshot_new
                       [] op = "HModule::load" -> HModule_load
         IN  step =>
               /\ last'.op = op
               /\ (last'.tag = "Err") = (last'.ret = failure)
               /\ calls' = calls
               /\ last'.tag = "Err" =>
                    /\ owners' = owners
                    /\ os' = os
                    /\ last'.code = lastError'
                    /\ last'.code # 0
               /\ last'.tag # "Err" =>
                    /\ last'.tag = "Ok"
                    /\ owners[last'.o] = NoOwner
                    /\ owners' = [owners EXCEPT ![last'.o] =
                                     Owner(kind, last'.ret)]
                    /\ os[last'.ret] = "unused"
                    /\ os'[last'.ret] = "open"]_vars

\* CreateToolhelp32Snapshot returned INVALID_HANDLE_VALUE: an error, no
\* owner, no call.
C8_Witness ==
    /\ last.op = "Snapshot::new"
    /\ last.ret = INVALID_HANDLE_VALUE
    /\ last.tag = "Err"
    /\ last.code = ERROR_ACCESS_DENIED
    /\ \A o \in OwnerIds : owners[o] = NoOwner /\ calls[o] = 0

\* C9 as stated: terminate, wait and enumerate-next report the failure value
\* of the underlying call (zero; WAIT_FAILED for the wait) as the last OS
\* error, and every other return as success.
C9_Original ==
    (last.op \in {"terminate", "wait", "next"} /\ last.tag # "None") =>
        LET failure == IF last.op = "wait" THEN WAIT_FAILED ELSE 0
        IN  /\ last.ret = failure =>
                 (last.tag = "Err" /\ last.code = lastError)
            /\ last.ret # failure => last.tag \in {"Ok", "Some"}

\* C9 as amended: terminate reports a zero return as the last OS error and
\* every nonzero return as success; wait reports exactly WAIT_FAILED as the
\* last OS error and every other return, zero included, as success;
\* enumerate-next reports no error: a TRUE return means more entries, a
\* FALSE return ends the enumeration, and the entry already in the cursor is
\* yielded either way.  None of them changes an owner, a kernel object or a
\* release count.
C9_BooleanCalls ==
    [][/\ \A o \in OwnerIds :
            /\ Process_terminate(o) =>
                 /\ last'.ret = 0 =>
                      (last'.tag = "Err" /\ last'.code = lastError')
                 /\ last'.ret # 0 => last'.tag = "Ok"
                 /\ UNCHANGED <<owners, os, calls, okCalls>>
            /\ Process_wait(o) =>
                 /\ last'.ret = WAIT_FAILED =>
                      (last'.tag = "Err" /\ last'.code = lastError')
                 /\ last'.ret # WAIT_FAILED => last'.tag = "Ok"
                 /\ UNCHANGED <<owners, os, calls, okCalls>>
       /\ ProcessIter_next =>
            /\ last'.tag = IF iter.has_more THEN "Some" ELSE "None"
            /\ iter.has_more =>
                 /\ last'.code = iter.current
                 /\ iter'.has_more = (last'.ret = BOOL_TRUE)
            /\ ~iter.has_more => iter' = iter
            /\ UNCHANGED <<owners, os, calls, okCalls>>]_vars

\* WaitForSingleObject returned zero (WAIT_OBJECT_0) and wait returned Ok.
C9_Witness ==
    /\ last.op = "wait"
    /\ last.ret = WAIT_OBJECT_0
    /\ last.tag = "Ok"
    /\ Live(last.o)
    /\ IsOpen(World, last.raw)

\* C10 as stated: init_mta_com_runtime, create_instance and
\* get_known_folder_path report success for S_OK only, and every other
\* status code as an error carrying the code.
C10_Original ==
    last.op \in {"init_mta_com_runtime", "create_instance",
                 "get_known_folder_path"} =>
        /\ last.tag = "Ok" => last.ret = S_OK
        /\ last.ret # S_OK => (last.tag = "Err" /\ last.code = last.ret)

\* C10 as amended: get_known_folder_path reports every status other than S_OK
\* as an error carrying the code and never reports S_OK as an error;
\* init_mta_com_runtime and create_instance report exactly the negative
\* status codes as an error carrying the code, and every non-negative code
\* (S_FALSE included) as success.
C10_StatusCodes ==
    /\ last.op = "get_known_folder_path" =>
         /\ last.ret # S_OK => (last.tag = "Err" /\ last.code = last.ret)
         /\ last.ret = S_OK => last.tag \in {"Ok", "Panic"}
         /\ last.tag = "Ok" => owners[last.o] =
                                   Owner("CoTaskMemWideString", last.raw)
    /\ last.op \in {"init_mta_com_runtime", "create_instance"} =>
         /\ last.ret < 0 => (last.tag = "Err" /\ last.code = last.ret)
         /\ last.ret >= 0 => last.tag = "Ok"

\* CoIncrementMTAUsage returned S_FALSE and init_mta_com_runtime returned Ok.
C10_Witness ==
    /\ last.op = "init_mta_com_runtime"
    /\ last.ret = S_FALSE
    /\ last.tag = "Ok"

\* C11: once a live ProcessIter's has_more is false (no first entry, or an
\* enumerate-next call that did not succeed), every step leaves that iterator
\* exactly as it is for as long as it lives, and every next() on it returns
\* None without calling the OS again, even when the snapshot holds entries
\* the enumeration has not reached.
C11_ExhaustedForever ==
    [][(iter.st = "live" /\ ~iter.has_more) =>
         /\ iter'.st = "live" => iter' = iter
         /\ ProcessIter_next =>
              /\ last'.op = "next"
              /\ last'.tag = "None"
              /\ iter' = iter
              /\ snapPos' = snapPos
              /\ lastError' = lastError]_vars

\* next() returned None on an iterator exhausted by a refused enumerate call
\* while the snapshot still holds an entry that was never read.
C11_Witness ==
    /\ iter.st = "live"
    /\ ~iter.has_more
    /\ last.op = "next"
    /\ last.tag = "None"
    /\ iter.yielded # <<>>
    /\ snapPos[owners[iter.snap].raw] < Len(snapList[owners[iter.snap].raw])

\* C12: the entries a ProcessIter has yielded, followed by the entry waiting
\* in its cursor while has_more holds, are exactly the entries the OS
\* enumeration has produced so far, in order, each once; every next() yields
\* the cursor as it was before the enumerate call of that next() overwrote
\* it and leaves the entries yielded before unchanged; a snapshot with no
\* entries yields nothing and next() returns None.
C12_YieldsEnumeration ==
    [][/\ iter'.st = "live" =>
            LET h == owners'[iter'.snap].raw
                pending == IF iter'.has_more THEN <<iter'.current>> ELSE <<>>
            IN  /\ iter'.yielded \o pending =
                      SubSeq(snapList'[h], 1, snapPos'[h])
                /\ Len(snapList'[h]) = 0 =>
                      (iter'.yielded = <<>> /\ ~iter'.has_more)
       /\ ProcessIter_next =>
            /\ last'.tag = "Some" =>
                 /\ last'.code = iter.current
                 /\ iter'.yielded = Append(iter.yielded, iter.current)
            /\ last'.tag # "Some" =>
                 /\ last'.tag = "None"
                 /\ iter'.yielded = iter.yielded]_vars

\* A snapshot of two processes was enumerated to its end: both entries were
\* yielded in order and the next() after them returned None.
C12_Witness ==
    /\ iter.st = "live"
    /\ iter.yielded = snapList[owners[iter.snap].raw]
    /\ Len(iter.yielded) = 2
    /\ ~iter.has_more
    /\ last.op = "next"
    /\ last.tag = "None"

\* C13: while a ProcessIter is live, its Snapshot is a live owner of an open
\* handle, and neither close, nor drop, nor a second iter_processes can run
\* on that Snapshot; no step taken while the iterator is live changes the
\* Snapshot, releases its handle or issues a release call through it.
C13_IteratorBorrowsSnapshot ==
    [][iter.st = "live" =>
         LET o == iter.snap
         IN  /\ Live(o)
             /\ owners[o].kind = "Snapshot"
             /\ IsOpen(World, owners[o].raw)
             /\ ~ENABLED Snapshot_close(o)
             /\ ~ENABLED Handle_drop(o)
             /\ ~ENABLED Snapshot_iter_processes(o)
             /\ owners'[o] = owners[o]
             /\ os'[owners[o].raw] = os[owners[o].raw]
             /\ calls'[o] = calls[o]]_vars

\* An enumerate call was made by an iterator on a Snapshot whose close had
\* failed before the iterator was created: the handle is still open and the
\* Snapshot cannot be closed again until the iterator is gone.
C13_Witness ==
    /\ iter.st = "live"
    /\ last.op = "next"
    /\ last.tag = "Some"
    /\ calls[iter.snap] = 1
    /\ okCalls[iter.snap] = 0
    /\ IsOpen(World, owners[iter.snap].raw)

\* C14: BStr::from_wide_iter(iter, len), with a len that fits 32 bits and an
\* allocation that succeeded, returns IterTooShort when the iterator yields
\* fewer than len elements and IterTooLarge when it yields more; either way
\* the one buffer it allocated is passed to the deallocator exactly once, no
\* other buffer is touched and no owner is created.
C14_IterMismatchFreesBuffer ==
    [][\A items \in WideSeqs, len \in Lens, p \in AllocRets(heap) :
         (/\ BStr_from_wide_iter_call(items, len, p)
          /\ len.hi = 0
          /\ p # NULL
          /\ Len(items) # len.lo)
         => /\ out'.tag = "Err"
            /\ out'.kind = IF Len(items) < len.lo THEN "IterTooShort"
                           ELSE "IterTooLarge"
            /\ out'.allocd = <<p>>
            /\ out'.freed = <<p>>
            /\ heap[p].st = "unused"
            /\ heap'[p].st = "freed"
            /\ \A b \in BufIds \ {p} : heap'[b] = heap[b]
            /\ owners' = owners]_vars

\* from_wide_iter returned IterTooLarge and the buffer it had allocated is
\* freed.
C14_Witness ==
    /\ out.op = "BStr::from_wide_iter"
    /\ out.tag = "Err"
    /\ out.kind = "IterTooLarge"
    /\ Len(out.allocd) = 1
    /\ out.freed = out.allocd
    /\ heap[out.allocd[1]].st = "freed"

\* C15: with an element count that does not fit 32 bits, BStr::from_wide_iter
\* and BStr::from_wide_slice return LenTooLarge having made no allocation
\* call, taken no element from the source, changed no buffer and created no
\* owner.
C15_LenTooLargeBeforeAllocation ==
    [][/\ \A items \in WideSeqs, len \in Lens, p \in AllocRets(heap) :
            (BStr_from_wide_iter_call(items, len, p) /\ len.hi # 0)
            => /\ out'.tag = "Err"
               /\ out'.kind = "LenTooLarge"
               /\ out'.allocd = <<>>
               /\ out'.freed = <<>>
               /\ out'.consumed = 0
               /\ heap' = heap
               /\ owners' = owners
       /\ \A slice \in Slices, p \in AllocRets(heap) :
            (BStr_from_wide_slice_call(slice, p) /\ slice.len.hi # 0)
            => /\ out'.tag = "Err"
               /\ out'.kind = "LenTooLarge"
               /\ out'.allocd = <<>>
               /\ out'.freed = <<>>
               /\ out'.consumed = 0
               /\ heap' = heap
               /\ owners' = owners]_vars

\* from_wide_slice refused a slice of 2^32 elements while an address was
\* still free to allocate.
C15_Witness ==
    /\ out.op = "BStr::from_wide_slice"
    /\ out.tag = "Err"
    /\ out.kind = "LenTooLarge"
    /\ out.allocd = <<>>
    /\ UnusedBufs(heap) # {}

\* C16 as stated: whenever the allocator returns null to BStr::from_wide_iter,
\* BStr::from_wide_slice, BStr::new, BStrRef::to_owned,
\* CoTaskMemWideString::new or DataBlob::from_slice, the call returns a
\* recoverable allocation-failure value (an error, or for the Option-returning
\* constructor None) and does not panic.
C16_Original ==
    (/\ out.op \in {"BStr::from_wide_iter", "BStr::from_wide_slice",
                    "BStr::new", "BStrRef::to_owned",
                    "CoTaskMemWideString::new", "DataBlob::from_slice"}
     /\ \E i \in DOMAIN out.allocd : out.allocd[i] = NULL)
    => /\ out.tag \in {"Err", "None"}
       /\ out.tag = "Err" => out.kind = "AllocFailed"
       /\ out.o = 0

\* C16: when the allocator returns null, BStr::from_wide_iter and
\* BStr::from_wide_slice return the AllocFailed error, CoTaskMemWideString::new
\* returns None, and BStr::new, BStrRef::to_owned and DataBlob::from_slice
\* panic; in every case the allocator was called once and not again, nothing
\* was freed, no buffer changed and no owner was created.
C16_AllocationFailure ==
    [][LET Fails(tag, kind) ==
               /\ out'.tag = tag
               /\ out'.kind = kind
               /\ out'.allocd = <<NULL>>
               /\ out'.freed = <<>>
               /\ out'.o = 0
               /\ out'.ptr = NULL
               /\ owners' = owners
               /\ heap' = heap
       IN  /\ \A items \in WideSeqs, len \in Lens :
                (BStr_from_wide_iter_call(items, len, NULL) /\ len.hi = 0)
                => Fails("Err", "AllocFailed")
           /\ \A slice \in Slices :
                (BStr_from_wide_slice_call(slice, NULL) /\ slice.len.hi = 0)
                => Fails("Err", "AllocFailed")
           /\ \A data \in OsStrs :
                BStr_new_call(data, NULL) => Fails("Panic", "AllocFailed")
           /\ \A o \in OwnerIds :
                BStrRef_to_owned_call(o, NULL)
                => Fails("Panic", "AllocFailed")
           /\ \A data \in OsStrs :
                CoTaskMemWideString_new_call(data, NULL)
                => Fails("None", "none")
           /\ \A data \in Slices :
                (DataBlob_from_slice_call(data, NULL) /\ data.len.hi = 0)
                => Fails("Panic", "AllocFailed")]_vars

\* DataBlob::from_slice panicked on a null allocation while an address was
\* free.
C16_Witness ==
    /\ out.op = "DataBlob::from_slice"
    /\ out.tag = "Panic"
    /\ out.kind = "AllocFailed"
    /\ out.allocd = <<NULL>>
    /\ UnusedBufs(heap) # {}

\* C17: a BStr built from n code units (by from_wide_slice, by from_wide_iter
\* with a matching count, by BStr::new from text of n units, or by to_owned
\* from a BStr of n units), the allocation having succeeded, is returned
\* without a panic behind a non-null pointer; its len() is 2 * n, its
\* as_wide_slice() is exactly the n units, its as_wide_slice_with_nul() is
\* those units followed by one zero, and is_empty() holds exactly when n = 0.
C17_BStrLengthAndSlices ==
    [][LET Holds(w) ==
               LET inner == BStrRef_from_ptr(heap', out'.ptr)
               IN  /\ out'.tag = "Ok"
                   /\ out'.ptr # NULL
                   /\ out'.o \in OwnerIds
                   /\ owners'[out'.o] = Owner("BStr", out'.ptr)
                   /\ BStrRef_len(inner) = 2 * Len(w)
                   /\ BStrRef_as_wide_slice(inner) = w
                   /\ BStrRef_as_wide_slice_with_nul(inner) = w \o <<0>>
                   /\ BStrRef_is_empty(inner) <=> (Len(w) = 0)
       IN  /\ \A slice \in Slices, p \in AllocRets(heap) \ {NULL} :
                (BStr_from_wide_slice_call(slice, p) /\ slice.len.hi = 0)
                => Holds(slice.units)
           /\ \A items \in WideSeqs, len \in Lens,
                 p \in AllocRets(heap) \ {NULL} :
                (/\ BStr_from_wide_iter_call(items, len, p)
                 /\ len = Usize(0, Len(items)))
                => Holds(items)
           /\ \A data \in OsStrs, p \in AllocRets(heap) \ {NULL} :
                BStr_new_call(data, p) => Holds(encode_wide(data))
           /\ \A o \in OwnerIds, p \in AllocRets(heap) \ {NULL} :
                BStrRef_to_owned_call(o, p)
                => Holds(BStrRef_as_wide_slice(
                             BStrRef_from_ptr(heap, owners[o].raw)))]_vars

\* A BStr was built from zero units: it is live behind a non-null pointer
\* with a zero byte count and only its terminator.
C17_Witness ==
    /\ out.op \in {"BStr::from_wide_slice", "BStr::from_wide_iter"}
    /\ out.tag = "Ok"
    /\ out.ptr # NULL
    /\ heap[out.ptr].st = "live"
    /\ BStrRef_from_ptr(heap, out.ptr) = <<NUL>>
    /\ BStrRef_is_empty(BStrRef_from_ptr(heap, out.ptr))

\* C18: a BStr built from units that include a zero keeps all of them: its
\* length and content are those of the whole input, past the zero too; and
\* contains_nul() of a BStr is true exactly when one of the units before its
\* terminator is zero.
C18_EmbeddedNulPreserved ==
    [][LET Holds(w) ==
               LET inner == BStrRef_from_ptr(heap', out'.ptr)
               IN  /\ out'.tag = "Ok"
                   /\ BStrRef_contains_nul(inner)
                        <=> (\E i \in 1..Len(w) : w[i] = 0)
                   /\ (\E i \in 1..Len(w) : w[i] = 0)
                        => /\ BStrRef_len(inner) = 2 * Len(w)
                           /\ BStrRef_as_wide_slice(inner) = w
       IN  /\ \A slice \in Slices, p \in AllocRets(heap) \ {NULL} :
                (BStr_from_wide_slice_call(slice, p) /\ slice.len.hi = 0)
                => Holds(slice.units)
           /\ \A items \in WideSeqs, len \in Lens,
                 p \in AllocRets(heap) \ {NULL} :
                (/\ BStr_from_wide_iter_call(items, len, p)
                 /\ len = Usize(0, Len(items)))
                => Holds(items)
           /\ \A data \in OsStrs, p \in AllocRets(heap) \ {NULL} :
                BStr_new_call(data, p) => Holds(encode_wide(data))]_vars

\* A live BStr holds a zero followed by another unit, and reports the zero.
C18_Witness ==
    /\ out.tag = "Ok"
    /\ out.ptr # NULL
    /\ heap[out.ptr].by = "SysAllocStringLen"
    /\ heap[out.ptr].st = "live"
    /\ BStrRef_as_wide_slice(BStrRef_from_ptr(heap, out.ptr)) = <<NUL, 97>>
    /\ BStrRef_contains_nul(BStrRef_from_ptr(heap, out.ptr))

\* C19: for the NUL-terminated strings (CoTaskMemWideString and
\* LocalWideString) len() is the index of the first zero unit of the buffer
\* and as_slice() is exactly the units before it; len() changes nothing, so
\* calling it again returns the same value; and CoTaskMemWideString::new of
\* text with an embedded zero reports only the part before that zero.
C19_NulTerminatedLength ==
    [][LET FirstZero(u) ==
               CHOOSE k \in 0..(Len(u) - 1) :
                   /\ u[k + 1] = 0
                   /\ \A j \in 1..k : u[j] # 0
       IN  /\ \A data \in OsStrs, p \in AllocRets(heap) \ {NULL} :
                CoTaskMemWideString_new_call(data, p)
                => LET w == encode_wide(data) \o <<NUL>>
                   IN  /\ out'.tag = "Some"
                       /\ CoTaskMemWideString_len(heap', p) = FirstZero(w)
                       /\ CoTaskMemWideString_as_slice(heap', p)
                            = SubSeq(w, 1, FirstZero(w))
           /\ \A w \in WideSeqs :
                LocalWideString_from_raw_call(w)
                => /\ out'.tag = "Ok"
                   /\ LocalWideString_len(heap', out'.ptr)
                        = FirstZero(w \o <<NUL>>)
                   /\ LocalWideString_as_slice(heap', out'.ptr)
                        = SubSeq(w, 1, FirstZero(w \o <<NUL>>))
           /\ \A o \in OwnerIds :
                WideString_len_call(o)
                => /\ heap' = heap
                   /\ owners' = owners
                   /\ out'.value = FirstZero(heap[owners[o].raw].units)
                   /\ (out.op = "len" /\ out.o = o)
                        => out'.value = out.value]_vars

\* len() of a CoTaskMemWideString built from text with an embedded zero
\* returned 1: the buffer holds a unit, the zero, another unit and the
\* terminator.
C19_Witness ==
    /\ out.op = "len"
    /\ out.value = 1
    /\ out.ptr # NULL
    /\ heap[out.ptr].by = "CoTaskMemAlloc"
    /\ heap[out.ptr].units = <<97, NUL, 97, NUL>>

\* C20: for text s with no embedded zero, BStr::new(s).to_os_string() is s and
\* CoTaskMemWideString::new(s).as_os_string() is s.
C20_OsStringRoundTrip ==
    [][\A data \in OsStrs, p \in AllocRets(heap) \ {NULL} :
         (\A i \in 1..Len(data) : data[i] # NUL)
         => /\ BStr_new_call(data, p)
                 => /\ out'.tag = "Ok"
                    /\ BStrRef_to_os_string(
                           BStrRef_from_ptr(heap', out'.ptr)) = data
            /\ CoTaskMemWideString_new_call(data, p)
                 => /\ out'.tag = "Some"
                    /\ CoTaskMemWideString_as_os_string(heap', out'.ptr)
                         = data]_vars

\* BStr::new was given text with a character outside the basic plane: the
\* buffer holds its surrogate pair.
C20_Witness ==
    /\ out.op = "BStr::new"
    /\ out.tag = "Ok"
    /\ out.ptr # NULL
    /\ BStrRef_from_ptr(heap, out.ptr) = <<97, 55357, 56832, NUL>>
    /\ BStrRef_to_os_string(BStrRef_from_ptr(heap, out.ptr)) = <<97, 128512>>

\* C21: whichever of BStr and BStrRef stands on either side, a == b holds
\* exactly when the two as_wide_slice() sequences are equal, whether or not
\* the two are the same allocation; values that are equal have equal hashes,
\* between the two types too; and the copy to_owned returns, a separate
\* allocation, equals the view it was made from, in both operand orders.
C21_EqualityByContent ==
    [][/\ \A a \in OwnerIds, b \in OwnerIds, how \in Comparisons :
            BStr_compare(a, b, how)
            => LET sa == BStrRef_as_wide_slice(
                             BStrRef_from_ptr(heap, owners[a].raw))
                   sb == BStrRef_as_wide_slice(
                             BStrRef_from_ptr(heap, owners[b].raw))
               IN  IF how \in {"hash(BStr) == hash(BStr)",
                               "hash(BStrRef) == hash(BStr)"}
                   THEN (sa = sb) => out'.tag = "true"
                   ELSE (out'.tag = "true") <=> (sa = sb)
       /\ \A o \in OwnerIds, p \in AllocRets(heap) \ {NULL} :
            BStrRef_to_owned_call(o, p)
            => LET view == BStrRef_from_ptr(heap', owners[o].raw)
               IN  /\ out'.tag = "Ok"
                   /\ out'.ptr # owners[o].raw
                   /\ BStr_eq_BStrRef(heap', out'.ptr, view)
                   /\ BStrRef_eq_BStr(heap', view, out'.ptr)
                   /\ BStr_eq(heap', out'.ptr, owners[o].raw)
                   /\ BStr_hash(heap', out'.ptr) = BStrRef_hash(view)]_vars

\* Two live BStr in different allocations were compared and found equal.
C21_Witness ==
    /\ out.op = "BStr == BStr"
    /\ out.tag = "true"
    /\ out.o \in OwnerIds
    /\ Live(out.o)
    /\ owners[out.o].raw # out.ptr
    /\ heap[out.ptr].st = "live"
    /\ heap[owners[out.o].raw].st = "live"

\* C22: the drop of a live BStr passes its buffer pointer to SysFreeString
\* exactly once and touches no other buffer and no other owner; no other
\* operation (a comparison through views, to_owned, into_raw, from_raw, a
\* constructor) frees or changes a live buffer, and a comparison allocates
\* nothing; to_owned allocates a buffer of its own, so that dropping the copy
\* leaves the original live.  Hence a live BStr's buffer is live and unfreed,
\* and a dropped BStr's buffer was freed by one call.
C22_BStrFreedOnceOnDrop ==
    [][/\ \A o \in OwnerIds :
            BStr_drop(o)
            => /\ out'.freed = <<owners[o].raw>>
               /\ heap[owners[o].raw].st = "live"
               /\ heap'[owners[o].raw].st = "freed"
               /\ \A b \in BufIds \ {owners[o].raw} : heap'[b] = heap[b]
               /\ \A q \in OwnerIds \ {o} : owners'[q] = owners[q]
       /\ (~ \E o \in OwnerIds : BStr_drop(o))
            => /\ out'.freed = <<>>
               /\ \A b \in BufIds : heap[b].st # "unused" => heap'[b] = heap[b]
       /\ \A a \in OwnerIds, b \in OwnerIds, how \in Comparisons :
            BStr_compare(a, b, how)
            => heap' = heap /\ out'.allocd = <<>> /\ owners' = owners
       /\ \A o \in OwnerIds, p \in AllocRets(heap) \ {NULL} :
            BStrRef_to_owned_call(o, p)
            => /\ out'.allocd = <<p>>
               /\ out'.ptr = p
               /\ heap[p].st = "unused"
               /\ p # owners[o].raw
               /\ owners'[o] = owners[o]
       /\ \A o \in OwnerIds :
            owners[o].kind = "BStr"
            => /\ Live(o) => heap[owners[o].raw].st = "live" /\ calls[o] = 0
               /\ owners[o].st = "dropped"
                    => heap[owners[o].raw].st = "freed" /\ calls[o] = 1]_vars

\* The second of two BStr was dropped and its buffer freed, while the first
\* is live in a buffer of its own.
C22_Witness ==
    /\ out.op = "BStr::drop"
    /\ out.freed = <<out.ptr>>
    /\ heap[out.ptr].st = "freed"
    /\ owners[out.o].st = "dropped"
    /\ out.o = 2
    /\ Live(1)
    /\ owners[1].kind = "BStr"
    /\ heap[owners[1].raw].st = "live"

\* C23: BStr::into_raw returns the buffer pointer, calls no deallocator and
\* leaves the buffer as it is, and the consumed owner never frees it;
\* BStr::from_raw(p) of a non-null p makes an owner of exactly p over the
\* unchanged buffer, which is freed by one call when that owner is dropped;
\* BStr::from_raw(null) panics and makes no owner.
C23_RawRoundTrip ==
    [][/\ \A o \in OwnerIds :
            BStr_into_raw(o)
            => /\ out'.ptr = owners[o].raw
               /\ out'.freed = <<>>
               /\ heap' = heap
               /\ calls' = calls
               /\ owners'[o].st = "raw"
       /\ \A ptr \in RawBStrs :
            BStr_from_raw_call(ptr)
            => /\ out'.tag = "Ok"
               /\ out'.o \in OwnerIds
               /\ owners[out'.o] = NoOwner
               /\ owners'[out'.o] = Owner("BStr", ptr)
               /\ out'.freed = <<>>
               /\ heap' = heap
       /\ BStr_from_raw_call(NULL)
            => /\ out'.tag = "Panic"
               /\ out'.o = 0
               /\ owners' = owners
               /\ heap' = heap
       /\ \A o \in OwnerIds :
            (BStr_drop(o) /\ \E q \in OwnerIds :
                               owners[q].st = "raw"
                               /\ owners[q].raw = owners[o].raw)
            => /\ out'.freed = <<owners[o].raw>>
               /\ heap[owners[o].raw].st = "live"
               /\ heap'[owners[o].raw].st = "freed"
       /\ \A o \in OwnerIds :
            owners[o].st = "raw"
            => /\ calls[o] = 0
               /\ heap[owners[o].raw].st = "freed"
                    => \E q \in OwnerIds :
                          /\ owners[q] = [Owner("BStr", owners[o].raw)
                                            EXCEPT !.st = "dropped"]
                          /\ calls[q] = 1]_vars

\* A BStr went through into_raw and from_raw, and the owner from_raw made was
\* dropped: the buffer is freed, by that owner alone.
C23_Witness ==
    /\ out.op = "BStr::drop"
    /\ out.freed = <<out.ptr>>
    /\ \E o \in OwnerIds :
         /\ owners[o].st = "raw"
         /\ owners[o].raw = out.ptr
         /\ calls[o] = 0
    /\ owners[out.o].st = "dropped"
    /\ heap[out.ptr].st = "freed"

\* C24: LocalWideString::destroy issues LocalFree exactly once per call on
\* the string's pointer; when LocalFree returns null the buffer is freed, the
\* owner is consumed and no later call is issued through it (no Drop runs);
\* when it returns non-null the caller gets back a live owner of the same
\* pointer, not freed, with the last OS error, and can call destroy again or
\* let the owner drop.
C24_DestroyMirrorsClose ==
    [][\A o \in OwnerIds :
         LET w == owners[o]
         IN /\ LocalWideString_destroy(o) =>
                  /\ calls'[o] = calls[o] + 1
                  /\ last'.raw = w.raw
                  /\ last'.ret = NULL =>
                       /\ last'.tag = "Ok"
                       /\ owners'[o].st = "closed"
                       /\ os[w.raw] = "open"
                       /\ os'[w.raw] = "released"
                       /\ okCalls'[o] = okCalls[o] + 1
                  /\ last'.ret # NULL =>
                       /\ last'.tag = "Err"
                       /\ owners'[o] = Owner("LocalWideString", w.raw)
                       /\ os'[w.raw] = "open"
                       /\ okCalls'[o] = okCalls[o]
                       /\ last'.code = lastError'
                       /\ last'.code # 0
            /\ (w.kind = "LocalWideString" /\ w.st = "closed") =>
                  /\ calls'[o] = calls[o]
                  /\ owners'[o] = owners[o]
            /\ (/\ last.op = "destroy"
                /\ last.kind = "LocalWideString"
                /\ last.o = o
                /\ last.tag = "Err") =>
                  /\ ENABLED LocalWideString_drop(o)
                  /\ calls[o] < MaxCalls => ENABLED LocalWideString_destroy(o)
         ]_vars

\* A LocalWideString whose first destroy failed was freed by a second one.
C24_Witness ==
    /\ last.op = "destroy"
    /\ last.kind = "LocalWideString"
    /\ last.tag = "Ok"
    /\ calls[last.o] = 2
    /\ okCalls[last.o] = 1
    /\ owners[last.o].st = "closed"
    /\ IsReleased(World, last.raw)

\* C25: for every live length-prefixed buffer, whose prefix holds an even
\* byte count L, the view BStrRef::from_ptr makes covers exactly L / 2 + 1
\* units, the whole buffer with its terminator, so it is never empty; len()
\* of the view is exactly L, the subtraction never going below zero;
\* as_wide_slice() has L / 2 units; and len() of the owned BStr is len() of
\* the view, both over the same content.
C25_ViewOfPrefix ==
    \A b \in BufIds :
        (heap[b].st = "live" /\ heap[b].by = "SysAllocStringLen")
        => LET L == heap[b].prefix
               inner == BStrRef_from_ptr(heap, b)
           IN  /\ L % 2 = 0
               /\ Len(inner) = (L \div 2) + 1
               /\ inner = heap[b].units
               /\ inner[Len(inner)] = NUL
               /\ Len(inner) * 2 >= 2
               /\ BStrRef_len(inner) = L
               /\ Len(BStrRef_as_wide_slice(inner)) = L \div 2
               /\ BStrRef_as_wide_slice(inner) \o <<NUL>> = inner
               /\ BStr_len(heap, b) = BStrRef_len(inner)
               /\ BStrRef_as_wide_slice(BStr_as_bstr_ref(heap, b))
                    = BStrRef_as_wide_slice(inner)

\* A live BStr of two units: its prefix holds 4 and its view covers three
\* units.
C25_Witness ==
    /\ out.tag = "Ok"
    /\ out.ptr # NULL
    /\ heap[out.ptr].st = "live"
    /\ heap[out.ptr].by = "SysAllocStringLen"
    /\ heap[out.ptr].prefix = 4
    /\ Len(BStrRef_from_ptr(heap, out.ptr)) = 3
    /\ BStrRef_len(BStrRef_from_ptr(heap, out.ptr)) = 4

\* C26: a caller that goes on calling next() on a ProcessIter gets None in
\* the end (unless it drops the iterator first), having been yielded exactly
\* the entries the enumeration delivered, never more than the snapshot holds;
\* an iterator yields again only after it was made anew by
\* Snapshot::iter_processes, which starts from nothing yielded and the
\* snapshot's first entry.
C26_IterationEnds ==
    /\ [][/\ (iter'.st = "live" /\ iter' # iter /\ ~ProcessIter_next)
               => \E o \in OwnerIds :
                     /\ Snapshot_iter_processes(o)
                     /\ iter'.snap = o
                     /\ iter'.yielded = <<>>
                     /\ snapPos'[owners[o].raw] <= 1
                     /\ iter'.has_more
                          => /\ snapPos'[owners[o].raw] = 1
                             /\ iter'.current = snapList[owners[o].raw][1]
          /\ iter'.st = "live"
               => Len(iter'.yielded) <= Len(snapList'[owners'[iter'.snap].raw])
         ]_vars
    /\ (iter.st = "live")
         ~> \/ iter.st # "live"
            \/ /\ last.op = "next"
               /\ last.tag = "None"
               /\ ~iter.has_more
               /\ iter.yielded =
                    SubSeq(snapList[owners[iter.snap].raw], 1,
                           snapPos[owners[iter.snap].raw])

\* An iterator just made on a snapshot of two entries holds the first entry
\* and has yielded nothing.
C26_Witness ==
    /\ iter.st = "live"
    /\ last.op = "iter_processes"
    /\ iter.has_more
    /\ iter.yielded = <<>>
    /\ iter.current = snapList[owners[iter.snap].raw][1]
    /\ snapPos[owners[iter.snap].raw] = 1
    /\ Len(snapList[owners[iter.snap].raw]) = 2

\* C27 as stated: the pointer DataBlob::destroy and the drop of a DataBlob
\* hand to LocalFree is the data-buffer pointer LocalAlloc returned for that
\* blob, and no address the allocator did not return is passed to the
\* deallocator.
C27_Original ==
    [][\A o \in OwnerIds :
         (DataBlob_destroy(o) \/ DataBlob_drop(o))
         => /\ out'.freed = <<owners[o].raw>>
            /\ \A i \in DOMAIN out'.freed :
                 /\ out'.freed[i] \in BufIds
                 /\ heap[out'.freed[i]].by = "LocalAlloc"]_vars

\* A DataBlob was dropped: LocalFree was given the address of its structure,
\* and the buffer LocalAlloc returned for it is still allocated, with no owner
\* left.
C27_Witness ==
    /\ out.op = "DataBlob::drop"
    /\ out.freed = <<DataBlob_as_mut_ptr(out.o)>>
    /\ owners[out.o].st = "dropped"
    /\ owners[out.o].raw = out.ptr
    /\ heap[out.ptr].st = "live"
    /\ heap[out.ptr].by = "LocalAlloc"

\* C28: in get_known_folder_path and crypt_unprotect_data a non-null string
\* pointer written by the foreign call is wrapped in its owning type before
\* the status is examined.  When the call failed, the string's deallocator is
\* called exactly once on that pointer, which frees it unless the deallocator
\* itself reports a failure, no owner is returned and the error is; when the
\* call succeeded, the owner is returned live and no deallocator call is made
\* on the string.  get_known_folder_path panics when the call succeeded and
\* left the pointer null.
C28_WrappedBeforeStatus ==
    [][/\ get_known_folder_path =>
            LET o == last'.o
                ptr == last'.raw
                ret == last'.ret
                path == Owner("CoTaskMemWideString", ptr)
            IN  /\ (ret # S_OK /\ ptr # NULL) =>
                      /\ last'.tag = "Err"
                      /\ last'.code = ret
                      /\ owners'[o] = [path EXCEPT !.st = "dropped"]
                      /\ calls' = [calls EXCEPT ![o] = @ + 1]
                      /\ os[ptr] = "unused"
                      /\ os'[ptr] = "released"
                /\ (ret = S_OK /\ ptr # NULL) =>
                      /\ last'.tag = "Ok"
                      /\ owners'[o] = path
                      /\ calls' = calls
                      /\ os'[ptr] = "open"
                /\ (ret = S_OK /\ ptr = NULL) =>
                      /\ last'.tag = "Panic"
                      /\ owners' = owners
                      /\ calls' = calls
                /\ (ret # S_OK /\ ptr = NULL) =>
                      /\ last'.tag = "Err"
                      /\ owners' = owners
                      /\ calls' = calls
       /\ \A data \in ByteSlices, p \in {NULL} \cup BufIds,
             ret \in {BOOL_FALSE, BOOL_TRUE}, dptr \in RawIds :
            (crypt_unprotect_data_call(data, p, ret, dptr)
               /\ out'.tag # "Panic") =>
              LET sD == out'.value
                  description == Owner("LocalWideString", dptr)
              IN  /\ sD \in OwnerIds
                  /\ owners[sD] = NoOwner
                  /\ ret = BOOL_FALSE =>
                        /\ out'.tag = "Err"
                        /\ out'.o = 0
                        /\ owners'[sD] = [description EXCEPT !.st = "dropped"]
                        /\ calls' = [calls EXCEPT ![sD] = @ + 1]
                        /\ os'[dptr] \in {"released", "open"}
                        /\ os'[dptr] = "released" <=> okCalls'[sD] = 1
                  /\ ret # BOOL_FALSE =>
                        /\ out'.tag = "Ok"
                        /\ owners'[sD] = description
                        /\ calls' = calls
                        /\ os'[dptr] = "open"]_vars

\* crypt_unprotect_data failed after CryptUnprotectData had written a
\* description pointer: the description was wrapped and dropped, one LocalFree
\* call was made on it and released it, and the caller got the error alone.
C28_Witness ==
    /\ out.op = "crypt_unprotect_data"
    /\ out.tag = "Err"
    /\ out.value \in OwnerIds
    /\ owners[out.value].kind = "LocalWideString"
    /\ owners[out.value].st = "dropped"
    /\ calls[out.value] = 1
    /\ okCalls[out.value] = 1
    /\ os[owners[out.value].raw] = "released"

====
